---- MODULE Spec2Model ----
(***************************************************************************)
(* Model of the next-bar execution backtester (backtester/engine.py).      *)
(*                                                                         *)
(* Money is held exactly, as an integer number of 1/Unit currency units,   *)
(* where Unit = RateDen * RateDen and the two cost rates are fractions     *)
(* k/RateDen: every product px * (1 +- slippage) * (1 + commission) the    *)
(* engine forms is then an integer, and its floor divisions are \div.      *)
(*                                                                         *)
(* Calendar dates are the indices 1..NumDates of the sorted calendar.      *)
(* The bars and the signal table are inputs fixed before run() starts; the *)
(* run reads each signal and each Open at a fixed step, so the model draws *)
(* such a cell at the step that reads it and records it in signals and     *)
(* Open. The Close table is drawn whole in Init.                           *)
(***************************************************************************)
EXTENDS Integers, Sequences, FiniteSets, TLC

\* ---------------------------------------------------------------- bounds
NumDates == 3                    \* length of the common calendar
MaxCalls == 2                    \* calls of run() on one Backtester object
RateDen == 2                     \* cost rates are k / RateDen

Unit == RateDen * RateDen        \* integer money units per currency unit

Symbols == <<"AAA", "BBB">>      \* keys of the data mapping, in insertion order
SymSet == {Symbols[k] : k \in 1..Len(Symbols)}
Capitals == {0, 4, 8}            \* initial_capital, in currency units
Rates == {0, 1}                  \* rate numerators: 0 and 1/RateDen
OpenPrices == {1, 5}             \* Open of a bar, in currency units
Signals == {-1, 0, 1}            \* what a strategy may emit

\* engine.py:57  per_symbol_budget = (initial_capital * 0.95) / n_symbols
BudgetNum == 95
BudgetDen == 100

VARIABLES
    allow_shorts,       \* Backtester.allow_shorts
    initial_capital,    \* Backtester.initial_capital (currency units)
    commission_rate,    \* Costs.commission_rate numerator
    slippage_rate,      \* Costs.slippage_rate numerator
    cash,               \* Backtester.cash (1/Unit)
    positions,          \* Backtester.positions: symbol -> signed shares
    fills,              \* Backtester.fills
    prev_target,        \* run(): prev_target
    equity_curve,       \* run(): equity_curve, <<date, equity>> records
    i,                  \* run(): index of the decision date dt
    j,                  \* run(): index into Symbols of the next symbol of dt
    pc,                 \* "loop" while run() iterates, "done" after it returns
    signals,            \* symbol -> raw signals read so far, one per date
    Open,               \* symbol -> (date -> Open), on the dates whose Open was read
    Close,              \* date -> symbol -> Close of the bar (currency units)
    returned            \* what each finished call of run() handed back

\* State of one call of metrics.round_trip_trades
VARIABLES
    in_fills,           \* the argument: a list of Fill records
    df,                 \* the rows built from the fills, sorted by symbol, date
    row,                \* index in df of the next row of the loop
    state,              \* symbol -> state of its open trade
    trades,             \* the Trades emitted so far
    rt_pc               \* "idle", "call", "rows" or "returned"

engine_vars == <<allow_shorts, initial_capital, commission_rate, slippage_rate, cash,
                 positions, fills, prev_target, equity_curve, i, j, pc, signals,
                 Open, Close, returned>>

rt_vars == <<in_fills, df, row, state, trades, rt_pc>>

\* State of a portfolio.Portfolio that is driven through _apply_fill
VARIABLES
    pf_cash,            \* Portfolio.cash
    pf_positions,       \* Portfolio.positions: symbol -> Position, if known
    pf_fills,           \* Portfolio.fills
    pf_commission,      \* the commission charged on every fill
    equity_out          \* the last call of Portfolio.equity: its argument and
                        \* the value it returned, while no fill has followed

pf_vars == <<pf_cash, pf_positions, pf_fills, pf_commission, equity_out>>

\* State of one call of metrics.trade_statistics
VARIABLES
    st_trades,          \* the argument: a list of Trades
    stats               \* the dictionary returned, once the call is over

st_vars == <<st_trades, stats>>

\* State of one evaluation of the equity-curve metrics
VARIABLES
    mt_equity,          \* the argument: the values of an equity series
    mt_out              \* what the four metrics returned, once evaluated

mt_vars == <<mt_equity, mt_out>>

\* State of one call of MovingAverageCrossover.generate_signals
VARIABLES
    ma_windows,         \* the strategy object: short_window and long_window
    ma_px,              \* the argument: the Adj Close of one symbol, by date
    ma_sig              \* the signals returned, once the call is over

ma_vars == <<ma_windows, ma_px, ma_sig>>

\* State of one call of dataio.load_many_csv
VARIABLES
    ld_files,           \* the files behind the paths, in the order of the paths
    ld_max_workers,     \* the size of the thread pool
    ld_submitted,       \* how many paths have been submitted to the pool
    ld_status,          \* task -> "queued", "running" or "done"
    ld_future,          \* task -> the frame its future holds, once done
    ld_order,           \* the tasks in the order as_completed yielded them
    ld_results,         \* the results dictionary: symbol -> frame
    ld_pc               \* "idle", "submit", "collect" or "returned"

ld_vars == <<ld_files, ld_max_workers, ld_submitted, ld_status, ld_future, ld_order,
             ld_results, ld_pc>>

\* State of examples/parallel_optimization: one grid run sequentially and then
\* by a pool of processes
VARIABLES
    sw_grid,            \* the grid: a list of Params
    sw_data,            \* the Adj Close series every run loads
    sw_processes,       \* the size of the process pool
    sw_seq,             \* rows of run_grid_sequential
    sw_submitted,       \* how many Params have been submitted to the pool
    sw_status,          \* task -> "queued", "running" or "done"
    sw_future,          \* task -> what run_one returned, once done
    sw_rows,            \* rows of run_grid_parallel
    sw_pc               \* "idle", "sequential", "submit", "collect", "returned"

sw_vars == <<sw_grid, sw_data, sw_processes, sw_seq, sw_submitted, sw_status, sw_future,
             sw_rows, sw_pc>>

vars == <<engine_vars, rt_vars, pf_vars, st_vars, mt_vars, ma_vars, ld_vars, sw_vars>>

\* What the steps of one component leave alone: the other components
beside_engine == <<rt_vars, pf_vars, st_vars, mt_vars, ma_vars, ld_vars, sw_vars>>
beside_rt == <<engine_vars, pf_vars, st_vars, mt_vars, ma_vars, ld_vars, sw_vars>>
beside_pf == <<engine_vars, rt_vars, st_vars, mt_vars, ma_vars, ld_vars, sw_vars>>
beside_st == <<engine_vars, rt_vars, pf_vars, mt_vars, ma_vars, ld_vars, sw_vars>>
beside_mt == <<engine_vars, rt_vars, pf_vars, st_vars, ma_vars, ld_vars, sw_vars>>
beside_ma == <<engine_vars, rt_vars, pf_vars, st_vars, mt_vars, ld_vars, sw_vars>>
beside_ld == <<engine_vars, rt_vars, pf_vars, st_vars, mt_vars, ma_vars, sw_vars>>
beside_sw == <<engine_vars, rt_vars, pf_vars, st_vars, mt_vars, ma_vars, ld_vars>>

config == <<allow_shorts, initial_capital, commission_rate, slippage_rate>>

\* ---------------------------------------------------------------- helpers
Abs(x) == IF x < 0 THEN -x ELSE x
Min(a, b) == IF a < b THEN a ELSE b
Max(a, b) == IF a > b THEN a ELSE b

\* engine.py:56  n_symbols = max(1, len(self.positions))
n_symbols == Max(1, Len(Symbols))

\* mutant of exec_price: slippage applied in the trader's favour
exec_price_favourable(side, px) ==
    IF side = "BUY" THEN px * (RateDen - slippage_rate) * RateDen
    ELSE px * (RateDen + slippage_rate) * RateDen

\* engine.py:61-66  _exec_price: slippage against the trader (1/Unit per share)
exec_price(side, px) ==
    IF side = "BUY" THEN px * (RateDen + slippage_rate) * RateDen
    ELSE px * (RateDen - slippage_rate) * RateDen

\* mutant of commission: the rate charged on one unit more than the notional
commission_padded(notional) == ((Abs(notional) + RateDen) * commission_rate) \div RateDen

\* engine.py:68-69  _commission(notional) = abs(notional) * commission_rate
commission(notional) == (Abs(notional) * commission_rate) \div RateDen

\* engine.py:127  per_share_total = price * (1.0 + commission_rate)
per_share_total(price) == (price * (RateDen + commission_rate)) \div RateDen

\* mutant of max_afford: the commission left out of the per-share cost
max_afford_no_commission(c, price) == Max(0, c \div price)

\* engine.py:128  max_afford = int(max(0.0, self.cash // per_share_total))
max_afford(c, price) == Max(0, c \div per_share_total(price))

RECURSIVE MarketValue(_, _, _)
MarketValue(pos, closeRow, k) ==
    IF k = 0 THEN 0
    ELSE MarketValue(pos, closeRow, k - 1)
         + pos[Symbols[k]] * closeRow[Symbols[k]] * Unit

\* mutant of mark_to_market: the last symbol left out of the sum
mark_to_market_short_sum(c, pos, dt) ==
    c + MarketValue(pos, Close[dt], Len(Symbols) - 1)

\* engine.py:71-76  _mark_to_market(dt), on the given cash and positions
mark_to_market(c, pos, dt) == c + MarketValue(pos, Close[dt], Len(Symbols))

\* mutant of process_target: the shorts remap left out
process_target_raw(tgt_raw) == tgt_raw

\* engine.py:100-104  the shorts remap
process_target(tgt_raw) ==
    IF ~allow_shorts THEN (IF tgt_raw = 1 THEN 1 ELSE 0) ELSE tgt_raw

\* mutant of target_changed: trade on every date
target_changed_always(target, prev) == TRUE

\* engine.py:107  the change test (negated: the loop continues when equal)
target_changed(target, prev) == target # prev

\* mutant of last_decision_date: the loop runs over every date
last_decision_date_all == NumDates

\* engine.py:92  for i in range(len(dates) - 1): the last decision date
last_decision_date == NumDates - 1

\* mutant of next_dt: execution on the decision date
next_dt_same(d) == d

\* engine.py:94  next_dt = dates[i + 1]
next_dt(d) == d + 1

\* engine.py:119 and 150  an exit leg is due: target flat, or a flip through zero
needs_exit(cur_qty, target) ==
    \/ cur_qty # 0 /\ target = 0
    \/ cur_qty # 0 /\ target # 0
       /\ ((target > 0 /\ 0 > cur_qty) \/ (target < 0 /\ 0 < cur_qty))

\* engine.py:121, 152  side = "SELL" if cur_qty > 0 else "BUY"
exit_side(cur_qty) == IF cur_qty > 0 THEN "SELL" ELSE "BUY"

\* mutant of exit_qty: a cover that ignores the affordability cap
exit_qty_uncapped(side, cur_qty, c, price) == Abs(cur_qty)

\* engine.py:123-132, 154-160  exit quantity, a BUY capped by affordability
exit_qty(side, cur_qty, c, price) ==
    IF side = "BUY" THEN Min(Abs(cur_qty), max_afford(c, price))
    ELSE Abs(cur_qty)

\* engine.py:179, 185  side of an entry
entry_side(target) == IF target > 0 THEN "BUY" ELSE "SELL"

\* mutant of budget_shares: sized from current cash, not initial capital
budget_shares_from_cash(price) ==
    (BudgetNum * cash) \div (BudgetDen * n_symbols * price)

\* engine.py:180  shares = int(self.per_symbol_budget // price)
budget_shares(price) ==
    (BudgetNum * initial_capital * Unit) \div (BudgetDen * n_symbols * price)

\* engine.py:188-191  entry quantity, a BUY capped by affordability
entry_qty(side, shares, c, price) ==
    IF side = "BUY" THEN Min(shares, max_afford(c, price)) ELSE shares

\* mutant of book: equity_after marked at the close of the execution date
book_marked_at_execution(st, sym, side, qty, price, new_qty, dt) ==
    LET notional == qty * price
        comm == commission(notional)
        c2 == IF side = "BUY" THEN st.cash - (notional + comm)
              ELSE st.cash + (notional - comm)
        p2 == [st.positions EXCEPT ![sym] = new_qty]
    IN [cash |-> c2,
        positions |-> p2,
        fills |-> Append(st.fills,
                    [date |-> next_dt(dt), symbol |-> sym, side |-> side,
                     qty |-> qty, price |-> price, commission |-> comm,
                     cash_after |-> c2,
                     equity_after |-> mark_to_market(c2, p2, next_dt(dt))])]

\* engine.py:134-147, 161-173, 196-209  cash and position update, Fill record
\* st = [cash, positions, fills]; new_qty is the position the leg leaves
book(st, sym, side, qty, price, new_qty, dt) ==
    LET notional == qty * price
        comm == commission(notional)
        c2 == IF side = "BUY" THEN st.cash - (notional + comm)
              ELSE st.cash + (notional - comm)
        p2 == [st.positions EXCEPT ![sym] = new_qty]
    IN [cash |-> c2,
        positions |-> p2,
        fills |-> Append(st.fills,
                    [date |-> next_dt(dt), symbol |-> sym, side |-> side,
                     qty |-> qty, price |-> price, commission |-> comm,
                     cash_after |-> c2,
                     equity_after |-> mark_to_market(c2, p2, dt)])]

\* mutant of after_exit: the exit always leaves the symbol flat
after_exit_flat(side, cur_qty, qty) == 0

\* engine.py:138, 141, 165, 168  the position an exit of qty shares leaves
after_exit(side, cur_qty, qty) ==
    IF side = "BUY" THEN cur_qty + qty ELSE cur_qty - qty

\* engine.py:119-174  the exit leg (close to zero, also the first half of a flip)
exit_leg(st, sym, target, open_px, dt) ==
    LET cur_qty == st.positions[sym]
        side == exit_side(cur_qty)
        price == exec_price(side, open_px)
        qty == exit_qty(side, cur_qty, st.cash, price)
    IN IF needs_exit(cur_qty, target)
       THEN book(st, sym, side, qty, price, after_exit(side, cur_qty, qty), dt)
       ELSE st

\* engine.py:177  if target != 0 and self.positions[sym] == 0
entry_due(target, cur_qty) == target # 0 /\ cur_qty = 0

\* mutant of advance_prev: the memory advances only when an entry was filled
advance_prev_on_fill(prev, target, entered) == IF entered THEN target ELSE prev

\* engine.py:182, 193, 212  prev_target[sym] = target on every path of a
\* changed target, whether or not the entry leg appended a fill (entered)
advance_prev(prev, target, entered) == target

\* engine.py:177-209  the entry leg
entry_leg(st, sym, target, open_px, dt) ==
    LET side == entry_side(target)
        price == exec_price(side, open_px)
        shares == budget_shares(price)
        qty == entry_qty(side, shares, st.cash, price)
    IN IF entry_due(target, st.positions[sym]) /\ shares > 0 /\ qty # 0
       THEN book(st, sym, side, qty, price,
                 IF side = "BUY" THEN qty ELSE -qty, dt)
       ELSE st

\* ---------------------------------------------------------------- state machine
Dates == 1..NumDates

\* Close table of the runs: every bar closes at a price of its
\* own, away from every Open (the run never branches on a Close)
CloseTables ==
    {[d \in Dates |-> [s \in SymSet |->
          2 * d + CHOOSE k \in 1..Len(Symbols) : Symbols[k] = s]]}

\* engine.py:83, 100  the raw signal of sym on date d: the cell of the signal
\* table, drawn when first read and the same on every later read
drawn_signal(sym, d) ==
    IF Len(signals[sym]) >= d THEN {signals[sym][d]} ELSE Signals

\* engine.py:111  the Open of sym on date d, drawn when first read
drawn_open(sym, d) ==
    IF d \in DOMAIN Open[sym] THEN {Open[sym][d]} ELSE OpenPrices

\* engine.py:30-57  __init__, and run() up to the loop (lines 82-89)
Constructed ==
    /\ cash = initial_capital * Unit
    /\ positions = [s \in SymSet |-> 0]
    /\ fills = << >>
    /\ prev_target = [s \in SymSet |-> 0]
    /\ equity_curve = << >>
    /\ i = 1
    /\ j = 1
    /\ pc = "loop"
    /\ signals = [s \in SymSet |-> << >>]
    /\ Open = [s \in SymSet |-> << >>]
    /\ Close \in CloseTables
    /\ returned = << >>

\* metrics.py:81, 87-93  the state of a symbol that has no row yet
fresh_state ==
    [pos |-> 0, entry_side |-> "None", entry_date |-> 0, entry_amt |-> 0,
     exit_amt |-> 0, qty_total |-> 0]

\* round_trip_trades has not been called
NoReconstruction ==
    /\ in_fills = << >>
    /\ df = << >>
    /\ row = 0
    /\ state = [s \in SymSet |-> fresh_state]
    /\ trades = << >>
    /\ rt_pc = "idle"

\* portfolio.py:7-11  a symbol that has no Position yet; avg_cost is the
\* fraction num / den
no_position == [known |-> FALSE, qty |-> 0, avg_cost |-> [num |-> 0, den |-> 1]]

\* portfolio.py:24-28  a Portfolio that is constructed with the given cash
NewPortfolio(c) ==
    /\ pf_cash = c
    /\ pf_positions = [s \in SymSet |-> no_position]
    /\ pf_fills = << >>

\* No Portfolio is driven by hand
\* equity() has not been called
not_called == [called |-> FALSE, prices |-> << >>, value |-> 0]

NoLedger == NewPortfolio(0) /\ pf_commission = 0 /\ equity_out = not_called

\* trade_statistics has not returned
no_stats ==
    [returned |-> FALSE, num_trades |-> 0, win_rate |-> [num |-> 0, den |-> 1],
     profit_factor |-> [inf |-> FALSE, num |-> 0, den |-> 1],
     avg_duration_days |-> [num |-> 0, den |-> 1],
     gross_profit |-> 0, gross_loss |-> 0]

\* trade_statistics is not called
NoStatistics == st_trades = << >> /\ stats = no_stats

\* The metrics have not been evaluated
no_metrics ==
    [returned |-> FALSE, total_return |-> "zero", cagr |-> "zero",
     sharpe |-> "zero", max_drawdown |-> "zero"]

\* No equity series is evaluated
NoMetrics == mt_equity = << >> /\ mt_out = no_metrics

\* A Backtester that is constructed and not run
NoBacktest ==
    /\ allow_shorts = TRUE
    /\ initial_capital = 0
    /\ commission_rate = 0
    /\ slippage_rate = 0
    /\ Constructed

\* generate_signals has not returned
no_signals == [returned |-> FALSE, values |-> << >>]

\* No strategy is asked for signals
NoStrategy ==
    /\ ma_windows = [short |-> 1, long |-> 2]
    /\ ma_px = << >>
    /\ ma_sig = no_signals

\* load_many_csv is not called
NoLoading ==
    /\ ld_files = << >>
    /\ ld_max_workers = 1
    /\ ld_submitted = 0
    /\ ld_status = << >>
    /\ ld_future = << >>
    /\ ld_order = << >>
    /\ ld_results = << >>
    /\ ld_pc = "idle"

\* No grid is swept
NoSweep ==
    /\ sw_grid = << >>
    /\ sw_data = << >>
    /\ sw_processes = 1
    /\ sw_seq = << >>
    /\ sw_submitted = 0
    /\ sw_status = << >>
    /\ sw_future = << >>
    /\ sw_rows = << >>
    /\ sw_pc = "idle"

\* Every component but c is at rest
IdleBut(c) ==
    /\ c # "engine" => NoBacktest
    /\ c # "round_trip_trades" => NoReconstruction
    /\ c # "portfolio" => NoLedger
    /\ c # "trade_statistics" => NoStatistics
    /\ c # "metrics" => NoMetrics
    /\ c # "strategy" => NoStrategy
    /\ c # "dataio" => NoLoading
    /\ c # "sweep" => NoSweep

\* A backtest: the configuration is free, the object is freshly constructed
Init ==
    /\ allow_shorts \in BOOLEAN
    /\ initial_capital \in Capitals
    /\ commission_rate \in Rates
    /\ slippage_rate \in Rates
    /\ Constructed
    /\ IdleBut("engine")

\* engine.py:98-212  the body of the symbol loop for date i and symbol Symbols[j]
ProcessSymbol ==
    /\ pc = "loop" /\ i <= last_decision_date /\ j <= Len(Symbols)
    /\ \E tgt_raw \in drawn_signal(Symbols[j], i),
          open_px \in drawn_open(Symbols[j], next_dt(i)) :
         LET sym == Symbols[j]
             target == process_target(tgt_raw)
             st0 == [cash |-> cash, positions |-> positions, fills |-> fills]
             st1 == exit_leg(st0, sym, target, open_px, i)
             st2 == entry_leg(st1, sym, target, open_px, i)
         IN /\ signals' = IF Len(signals[sym]) >= i THEN signals
                          ELSE [signals EXCEPT ![sym] = Append(@, tgt_raw)]
            /\ IF target_changed(target, prev_target[sym])
               THEN /\ Open' = [Open EXCEPT ![sym] = @ @@ (next_dt(i) :> open_px)]
                    /\ cash' = st2.cash
                    /\ positions' = st2.positions
                    /\ fills' = st2.fills
                    /\ prev_target' = [prev_target EXCEPT ![sym] =
                                         advance_prev(@, target, st2.fills # st1.fills)]
               ELSE UNCHANGED <<Open, cash, positions, fills, prev_target>>
    /\ j' = j + 1
    /\ UNCHANGED <<config, equity_curve, i, pc, Close, returned, beside_engine>>

\* engine.py:214-215  end-of-day mark on dt, then the loop moves to the next date
EndOfDay ==
    /\ pc = "loop" /\ i <= last_decision_date /\ j = Len(Symbols) + 1
    /\ equity_curve' = Append(equity_curve,
                          [date |-> i, equity |-> mark_to_market(cash, positions, i)])
    /\ i' = i + 1
    /\ j' = 1
    /\ UNCHANGED <<config, cash, positions, fills, prev_target, pc, signals, Open,
                   Close, returned, beside_engine>>

\* engine.py:217-230  final day mark, run() returns
FinalMark ==
    /\ pc = "loop" /\ i > last_decision_date
    /\ equity_curve' = Append(equity_curve,
                          [date |-> NumDates,
                           equity |-> mark_to_market(cash, positions, NumDates)])
    /\ pc' = "done"
    /\ returned' = Append(returned, [equity |-> equity_curve', fills |-> fills])
    /\ UNCHANGED <<config, cash, positions, fills, prev_target, i, j, signals,
                   Open, Close, beside_engine>>

\* One call of run() on a freshly constructed Backtester
Next == ProcessSymbol \/ EndOfDay \/ FinalMark

Spec == Init /\ [][Next]_vars

\* engine.py:80-89  run() called again on the same object: prev_target,
\* equity_curve and the loop start afresh; cash, positions and fills are the
\* object's attributes, set in __init__ (lines 45-47) and not in run()
RunAgain ==
    /\ pc = "done" /\ Len(returned) < MaxCalls
    /\ prev_target' = [s \in SymSet |-> 0]
    /\ equity_curve' = << >>
    /\ i' = 1
    /\ j' = 1
    /\ pc' = "loop"
    /\ UNCHANGED <<config, cash, positions, fills, signals, Open, Close, returned,
                   beside_engine>>

NextRerun == ProcessSymbol \/ EndOfDay \/ FinalMark \/ RunAgain

\* Up to MaxCalls calls of run() on one Backtester object, same data and strategy
RerunSpec == Init /\ [][NextRerun]_vars

\* run() is one sequential call: it keeps taking steps until it returns
FairSpec == Spec /\ WF_vars(Next)

\* ---------------------------------------------------------------- properties
\* Signed quantity of a fill: a BUY adds shares, a SELL removes them
SignedQty(f) == IF f.side = "BUY" THEN f.qty ELSE -f.qty

\* Shares of fills[k].symbol held just before fills[k], from the fill list alone
RECURSIVE RunningPos(_, _)
RunningPos(sym, k) ==
    IF k = 0 THEN 0
    ELSE RunningPos(sym, k - 1)
         + (IF fills[k].symbol = sym THEN SignedQty(fills[k]) ELSE 0)

HeldBefore(k) == RunningPos(fills[k].symbol, k - 1)

\* Cash just before fills[k], from the Fill record alone
CashBefore(k) ==
    LET f == fills[k]
    IN IF f.side = "BUY" THEN f.cash_after + (f.qty * f.price + f.commission)
       ELSE f.cash_after - (f.qty * f.price - f.commission)

\* Shares that cash x buys at price, commission included
Affordable(x, price) ==
    LET q == x \div ((price * (RateDen + commission_rate)) \div RateDen)
    IN IF q < 0 THEN 0 ELSE q

\* Processed target of sym on date d (after the shorts remap); 0 before date 1
TargetOn(sym, d) ==
    IF d = 0 THEN 0
    ELSE IF allow_shorts THEN signals[sym][d]
    ELSE IF signals[sym][d] = 1 THEN 1 ELSE 0

\* Processed target of the symbol a ProcessSymbol step handles, from the raw
\* signal the step read on date i
StepTarget ==
    LET raw == signals'[Symbols[j]][i]
    IN IF allow_shorts THEN raw ELSE IF raw = 1 THEN 1 ELSE 0

\* C1: every Fill in the fill list has cash_after >= 0
C1_Solvency == \A k \in 1..Len(fills) : fills[k].cash_after >= 0

\* C1 witness: a BUY that the affordability cap sized (one more share was
\* not affordable) with commission charged
C1_Witness ==
    \E k \in 1..Len(fills) :
        /\ fills[k].side = "BUY" /\ fills[k].qty > 0 /\ commission_rate > 0
        /\ Affordable(CashBefore(k), fills[k].price) = fills[k].qty
        /\ HeldBefore(k) = 0
        /\ fills[k].cash_after > 0

\* C2: a step that appends fills appends them for the symbol it processes,
\* dated the calendar date right after the decision date i, never i itself,
\* and only when that symbol's processed target on i differs from its
\* recorded previous target
C2_NoLookAhead ==
    [][\A k \in (Len(fills) + 1)..Len(fills') :
          /\ fills'[k].date = i + 1
          /\ fills'[k].date # i
          /\ fills'[k].symbol = Symbols[j]
          /\ Len(signals'[Symbols[j]]) = i
          /\ StepTarget # prev_target[Symbols[j]]]_vars

\* C2 witness: a fill executed on date 3, decided on date 2
C2_Witness == \E k \in 1..Len(fills) : fills[k].date = 3 /\ fills[k].qty > 0

\* C3: every fill of a symbol, dated d + 1, was triggered by a date d whose
\* processed target differs from the target of date d - 1 (0 before the first
\* date): a date that repeats the previous date's target triggers no fill
C3_ChurnSuppression ==
    \A k \in 1..Len(fills) :
        LET f == fills[k]
        IN /\ f.date - 1 \in 1..Len(signals[f.symbol])
           /\ TargetOn(f.symbol, f.date - 1) # TargetOn(f.symbol, f.date - 2)

\* C3 witness: a symbol whose target was +1 on two consecutive dates, still
\* flat because the entry was sized to zero, on a funded run: nothing retried
C3_Witness ==
    \E s \in SymSet :
        /\ Len(signals[s]) >= 2
        /\ TargetOn(s, 1) = 1 /\ TargetOn(s, 2) = 1
        /\ positions[s] = 0 /\ initial_capital > 0
        /\ \A k \in 1..Len(fills) : fills[k].symbol # s

\* C4: every Fill in the fill list has qty >= 1
C4_NoZeroQtyFill == \A k \in 1..Len(fills) : fills[k].qty >= 1

\* C5: with shorts disabled no position is negative, every SELL fill sells at
\* most the shares held before it, and no SELL is made from a flat position
C5_LongOnly ==
    ~allow_shorts =>
        /\ \A s \in SymSet : positions[s] >= 0
        /\ \A k \in 1..Len(fills) :
              fills[k].side = "SELL" =>
                  /\ HeldBefore(k) > 0
                  /\ fills[k].qty <= HeldBefore(k)

\* C5 witness: a long-only run that read a raw -1 while long and sold out
C5_Witness ==
    /\ ~allow_shorts
    /\ \E k \in 1..Len(fills) :
          /\ fills[k].side = "SELL"
          /\ signals[fills[k].symbol][fills[k].date - 1] = -1

\* Market value of the positions pos at the Close of date d (1/Unit)
RECURSIVE ValueAt(_, _, _)
ValueAt(S, pos, d) ==
    IF S = {} THEN 0
    ELSE LET s == CHOOSE x \in S : TRUE
         IN pos[s] * Close[d][s] * Unit + ValueAt(S \ {s}, pos, d)

\* C6: when the run has finished date i - 1 and has not yet touched date i,
\* the mark recorded for date i - 1 is cash + sum of position x Close of that
\* date; when the run is done the final date's mark is that sum on the ending
\* cash and positions
C6_EquityReconciliation ==
    /\ (pc = "loop" /\ j = 1 /\ i >= 2) =>
          /\ Len(equity_curve) = i - 1
          /\ equity_curve[i - 1].date = i - 1
          /\ equity_curve[i - 1].equity = cash + ValueAt(SymSet, positions, i - 1)
    /\ pc = "done" =>
          /\ Len(equity_curve) >= 1
          /\ equity_curve[Len(equity_curve)].date = NumDates
          /\ equity_curve[Len(equity_curve)].equity
                = cash + ValueAt(SymSet, positions, NumDates)

\* C6 witness: a finished run that ends long one symbol and short another
C6_Witness ==
    /\ pc = "done"
    /\ \E s \in SymSet, t \in SymSet : positions[s] > 0 /\ positions[t] < 0

\* C7: the run terminates; when it has, the equity curve holds exactly one
\* mark per calendar date in ascending order and signals were read on dates
\* 1..NumDates-1 only; no fill is ever dated after the final date, and the
\* final mark appends no fill
C7_RunCompletes ==
    /\ <>(pc = "done")
    /\ [](pc = "done" =>
            /\ Len(equity_curve) = NumDates
            /\ \A d \in 1..Len(equity_curve) : equity_curve[d].date = d
            /\ \A s \in SymSet : Len(signals[s]) = NumDates - 1)
    /\ [](\A k \in 1..Len(fills) : fills[k].date <= NumDates)
    /\ [][pc' = "done" => fills' = fills]_vars

\* C7 witness: a finished run with a fill executed on the final date
C7_Witness ==
    /\ pc = "done"
    /\ \E k \in 1..Len(fills) : fills[k].date = NumDates /\ fills[k].qty > 0

\* C8: every fill's price is the Open of its symbol on its own date, times
\* (1 + slippage) for a BUY and (1 - slippage) for a SELL
C8_ExecutionPrice ==
    \A k \in 1..Len(fills) :
        LET f == fills[k]
        IN /\ f.date \in DOMAIN Open[f.symbol]
           /\ f.price * RateDen =
                 Open[f.symbol][f.date] * Unit
                   * (IF f.side = "BUY" THEN RateDen + slippage_rate
                      ELSE RateDen - slippage_rate)

\* C8 witness: with slippage charged, a BUY and a SELL were both executed
C8_Witness ==
    /\ slippage_rate > 0
    /\ \E k \in 1..Len(fills) : fills[k].side = "BUY" /\ fills[k].qty > 0
    /\ \E k \in 1..Len(fills) : fills[k].side = "SELL" /\ fills[k].qty > 0

\* Shares the fixed budget 0.95 x initial_capital / N buys at price
BudgetBuys(price) ==
    (95 * initial_capital * Unit) \div (100 * Len(Symbols) * price)

\* C9: a fill made from a flat position is an entry of at least one share;
\* a SELL entry has floor(budget / price) shares, a BUY entry the smaller of
\* that and floor(cash / (price x (1 + commission_rate)))
C9_EntrySizing ==
    \A k \in 1..Len(fills) :
        HeldBefore(k) = 0 =>
            LET f == fills[k]
            IN /\ f.qty >= 1
               /\ f.side = "SELL" => f.qty = BudgetBuys(f.price)
               /\ f.side = "BUY" =>
                     /\ f.qty <= BudgetBuys(f.price)
                     /\ f.qty <= Affordable(CashBefore(k), f.price)
                     /\ \/ f.qty = BudgetBuys(f.price)
                        \/ f.qty = Affordable(CashBefore(k), f.price)

\* C9 witness: a BUY entry that the cash cap cut below the budget size
C9_Witness ==
    \E k \in 1..Len(fills) :
        /\ HeldBefore(k) = 0 /\ fills[k].side = "BUY"
        /\ fills[k].qty < BudgetBuys(fills[k].price)

\* C10: a step whose symbol holds cur # 0 shares and whose target changed to
\* flat or to the sign opposite cur first appends an exit fill on the opposite
\* side; a SELL exit sells exactly cur shares, a BUY exit buys the smaller of
\* |cur| and floor(cash / (price x (1 + commission_rate))); with a flat target
\* the position left is cur less the exit, never past zero
C10_ExitFirst ==
    [][(/\ j' = j + 1
        /\ positions[Symbols[j]] # 0
        /\ StepTarget # prev_target[Symbols[j]]
        /\ StepTarget = 0 \/ StepTarget * positions[Symbols[j]] < 0)
       => (/\ Len(fills') > Len(fills)
           /\ LET f == fills'[Len(fills) + 1]
                  cur == positions[Symbols[j]]
                  tgt == StepTarget
              IN /\ f.symbol = Symbols[j]
                 /\ f.side = (IF cur > 0 THEN "SELL" ELSE "BUY")
                 /\ cur > 0 => f.qty = cur
                 /\ cur < 0 => /\ f.qty <= -cur
                               /\ f.qty <= Affordable(cash, f.price)
                               /\ f.qty = -cur \/ f.qty = Affordable(cash, f.price)
                 /\ tgt = 0 => positions'[Symbols[j]] = cur + SignedQty(f)
                 /\ (cur > 0 /\ tgt = 0) => positions'[Symbols[j]] = 0
                 /\ cur > 0 => positions'[Symbols[j]] <= 0
                 /\ cur < 0 => positions'[Symbols[j]] >= cur)]_vars

\* C10 witness: a short cover cut by the cap to part of the position
C10_Witness ==
    \E k \in 1..Len(fills) :
        /\ fills[k].side = "BUY" /\ HeldBefore(k) < 0
        /\ fills[k].qty > 0 /\ fills[k].qty < -HeldBefore(k)

\* C11: a short cover that the affordability cap cut below the short's size
\* (to part of it or to nothing) is the symbol's only fill of that date, and
\* the symbol stays short by what was not covered: while that cover is the
\* symbol's latest fill its position is the old one plus the shares covered
C11_NoEntryAfterCutCover ==
    \A k \in 1..Len(fills) :
        (fills[k].side = "BUY" /\ HeldBefore(k) < 0
           /\ fills[k].qty < -HeldBefore(k)) =>
            /\ \A m \in 1..Len(fills) :
                  (m # k /\ fills[m].symbol = fills[k].symbol) =>
                      fills[m].date # fills[k].date
            /\ (\A m \in (k + 1)..Len(fills) : fills[m].symbol # fills[k].symbol)
                  => /\ positions[fills[k].symbol] = HeldBefore(k) + fills[k].qty
                     /\ positions[fills[k].symbol] < 0

\* C11 witness: a flip from short to long whose cover was cut to part of the
\* short
C11_Witness ==
    \E k \in 1..Len(fills) :
        /\ fills[k].side = "BUY" /\ HeldBefore(k) < 0
        /\ fills[k].qty > 0 /\ fills[k].qty < -HeldBefore(k)
        /\ TargetOn(fills[k].symbol, fills[k].date - 1) = 1

\* C12: once a symbol has been processed for a date, its previous-target
\* memory is its processed target on that date, fill or no fill; and a date
\* that repeats the previous date's target leaves the symbol without a fill
\* on the next date, so a zero-sized entry is not retried
C12_PrevTargetAdvances ==
    \A s \in SymSet :
        /\ Len(signals[s]) >= 1 => prev_target[s] = TargetOn(s, Len(signals[s]))
        /\ \A d \in 2..Len(signals[s]) :
              TargetOn(s, d) = TargetOn(s, d - 1)
                => \A k \in 1..Len(fills) :
                       fills[k].symbol = s => fills[k].date # d + 1

\* C12 witness: a short entry sized to zero on a funded run: the memory holds
\* -1, the symbol is flat and has no fill
C12_Witness ==
    \E s \in SymSet :
        /\ prev_target[s] = -1 /\ positions[s] = 0 /\ initial_capital > 0
        /\ Len(signals[s]) = 1
        /\ \A k \in 1..Len(fills) : fills[k].symbol # s

\* C13: every call of run() starts with cash = initial capital, all positions
\* zero and no fills, and two calls on the same object hand back the same
\* equity series and the same fill list
C13_RunStartsFresh ==
    /\ (pc = "loop" /\ i = 1 /\ j = 1) =>
          /\ cash = initial_capital * Unit
          /\ \A s \in SymSet : positions[s] = 0
          /\ fills = << >>
    /\ Len(returned) >= 2 => returned[2] = returned[1]

\* The fill list only grows at its end
FillsAppended ==
    /\ Len(fills') >= Len(fills)
    /\ \A k \in 1..Len(fills) : fills'[k] = fills[k]

\* Fill dates never step back along the list
Chronological ==
    \A k \in 1..Len(fills) : \A m \in 1..Len(fills) :
        k <= m => fills[k].date <= fills[m].date

\* C29: a recorded Fill is never removed or altered, fill dates are
\* non-decreasing along the fill list, and every fill date is a calendar date
\* other than the first one
C29_AppendOnlyChronological ==
    /\ [][FillsAppended]_vars
    /\ [](Chronological /\ \A k \in 1..Len(fills) : fills[k].date \in 2..NumDates)

\* Market value just after fills[k] of the first n symbols, at the Close of
\* date d, the shares taken from the fill list alone (1/Unit)
RECURSIVE MarkedAfter(_, _, _)
MarkedAfter(k, d, n) ==
    IF n = 0 THEN 0
    ELSE MarkedAfter(k, d, n - 1)
         + RunningPos(Symbols[n], k) * Close[d][Symbols[n]] * Unit

\* C30: every Fill has equity_after = cash_after + sum over the symbols of
\* the shares held right after that fill x Close of the decision date, the
\* calendar date before the fill's date
C30_FillMarkedAtDecisionClose ==
    \A k \in 1..Len(fills) :
        fills[k].equity_after
            = fills[k].cash_after
              + MarkedAfter(k, fills[k].date - 1, Len(Symbols))

\* C30 witness: a fill that leaves its symbol held while the other symbol is
\* held too, where the close of the execution date would give another value
C30_Witness ==
    \E k \in 1..Len(fills) :
        /\ RunningPos(fills[k].symbol, k) # 0
        /\ \E s \in SymSet \ {fills[k].symbol} : RunningPos(s, k) # 0
        /\ MarkedAfter(k, fills[k].date - 1, Len(Symbols))
              # MarkedAfter(k, fills[k].date, Len(Symbols))

\* ---------------------------------------------------------------------------
\* metrics.round_trip_trades: trades reconstructed from a list of fills
\* ---------------------------------------------------------------------------

MaxFills == 3                    \* length of the fill list handed in

Quantities == {1, 2}             \* Fill.qty: positive integers
FillDates == {1, 3}              \* Fill.date, as day numbers
Commissions == {0, 2}            \* Fill.commission: multiples of every quantity,
                                 \* so that commission / qty is exact
Sides == {"BUY", "SELL"}

\* The price of a fill dated d: prices rise with the date
price_on(d) == 9 + d

\* What tells one fill of the list from another, apart from what is derived
FillChoices == [date : FillDates, symbol : SymSet, side : Sides, qty : Quantities]

\* portfolio.py:13-22  a Fill; cash_after and equity_after differ from fill to
\* fill and are never zero
make_fill(k, c, comm) ==
    [date |-> c.date, symbol |-> c.symbol, side |-> c.side, qty |-> c.qty,
     price |-> price_on(c.date), commission |-> comm,
     cash_after |-> 100 + k, equity_after |-> 200 + k]

\* metrics.py:72-79  the row built from a Fill, reading cash_after as commission
fill_row_with_cash(f) ==
    [date |-> f.date, symbol |-> f.symbol, side |-> f.side, qty |-> f.qty,
     price |-> f.price, commission |-> f.cash_after]

\* metrics.py:72-79  the row built from a Fill
fill_row(f) ==
    [date |-> f.date, symbol |-> f.symbol, side |-> f.side, qty |-> f.qty,
     price |-> f.price, commission |-> f.commission]

frame(fs) == [k \in 1..Len(fs) |-> fill_row(fs[k])]

SymIndex(sym) == CHOOSE k \in 1..Len(Symbols) : Symbols[k] = sym

\* metrics.py:79  with the frame sorted by "date" alone
row_before_date_only(a, b) == a.date < b.date

\* metrics.py:79  the sort key ["symbol", "date"]: a comes strictly before b
row_before(a, b) ==
    \/ SymIndex(a.symbol) < SymIndex(b.symbol)
    \/ a.symbol = b.symbol /\ a.date < b.date

RECURSIVE insert_row(_, _)
\* r placed in a sorted list behind every row that does not come after it
insert_row(sorted, r) ==
    IF sorted = << >> THEN <<r>>
    ELSE IF row_before(r, Head(sorted)) THEN <<r>> \o sorted
    ELSE <<Head(sorted)>> \o insert_row(Tail(sorted), r)

RECURSIVE sort_values(_)
\* metrics.py:79  sort_values(["symbol", "date"]): rows with equal keys keep
\* the order they have in the fill list
sort_values(rows) ==
    IF rows = << >> THEN << >>
    ELSE insert_row(sort_values(SubSeq(rows, 1, Len(rows) - 1)), rows[Len(rows)])

\* metrics.py:85  with the whole commission charged on every share
per_share_comm_whole(comm, qty) == IF qty > 0 THEN comm ELSE 0

\* metrics.py:85
per_share_comm(comm, qty) == IF qty > 0 THEN comm \div qty ELSE 0

\* metrics.py:102-106  with the SHORT branch computed like the LONG one
trade_pnl_long_only(side_, entry_amt, exit_amt) == exit_amt - entry_amt

\* metrics.py:102-106
trade_pnl(side_, entry_amt, exit_amt) ==
    IF side_ = "LONG" THEN exit_amt - entry_amt ELSE entry_amt - exit_amt

\* metrics.py:108  without the floor of one day
duration_unfloored(entry_date, exit_date) == exit_date - entry_date

\* metrics.py:108
duration(entry_date, exit_date) == Max(1, exit_date - entry_date)

\* metrics.py:95-116  with entry_side left as it was by the reset
close_trade_keeps_side(s, ts, sym, exit_date) ==
    IF s.entry_side = "None" \/ s.pos # 0 THEN [s |-> s, trades |-> ts]
    ELSE [s |-> [s EXCEPT !.entry_date = 0,
                          !.entry_amt = 0, !.exit_amt = 0, !.qty_total = 0],
          trades |-> Append(ts,
              [symbol |-> sym, entry_date |-> s.entry_date, exit_date |-> exit_date,
               side |-> s.entry_side, qty |-> s.qty_total,
               entry_amount |-> s.entry_amt, exit_amount |-> s.exit_amt,
               pnl |-> trade_pnl(s.entry_side, s.entry_amt, s.exit_amt),
               duration_days |-> duration(s.entry_date, exit_date)])]

\* metrics.py:95-116  returns the state of the symbol and the trade list
close_trade(s, ts, sym, exit_date) ==
    IF s.entry_side = "None" \/ s.pos # 0 THEN [s |-> s, trades |-> ts]
    ELSE [s |-> [s EXCEPT !.entry_side = "None", !.entry_date = 0,
                          !.entry_amt = 0, !.exit_amt = 0, !.qty_total = 0],
          trades |-> Append(ts,
              [symbol |-> sym, entry_date |-> s.entry_date, exit_date |-> exit_date,
               side |-> s.entry_side, qty |-> s.qty_total,
               entry_amount |-> s.entry_amt, exit_amount |-> s.exit_amt,
               pnl |-> trade_pnl(s.entry_side, s.entry_amt, s.exit_amt),
               duration_days |-> duration(s.entry_date, exit_date)])]

\* metrics.py:121-122, 131-132  with the date of the latest entry kept instead
first_entry_date_latest(entry_date, dt) == dt

\* metrics.py:121-122, 131-132
first_entry_date(entry_date, dt) == IF entry_date = 0 THEN dt ELSE entry_date

\* metrics.py:119-124  with the shares of the entry left out of qty_total
add_long_entry_uncounted(s, q, dt, px, psc) ==
    [s EXCEPT !.entry_side = IF @ = "None" THEN "LONG" ELSE @,
              !.entry_date = first_entry_date(@, dt),
              !.entry_amt = @ + q * (px + psc)]

\* metrics.py:119-124
add_long_entry(s, q, dt, px, psc) ==
    [s EXCEPT !.entry_side = IF @ = "None" THEN "LONG" ELSE @,
              !.entry_date = first_entry_date(@, dt),
              !.entry_amt = @ + q * (px + psc),
              !.qty_total = @ + q]

\* metrics.py:126-127
add_long_exit(s, q, px, psc) == [s EXCEPT !.exit_amt = @ + q * (px - psc)]

\* metrics.py:129-134
add_short_entry(s, q, dt, px, psc) ==
    [s EXCEPT !.entry_side = IF @ = "None" THEN "SHORT" ELSE @,
              !.entry_date = first_entry_date(@, dt),
              !.entry_amt = @ + q * (px - psc),
              !.qty_total = @ + q]

\* metrics.py:136-137
add_short_exit(s, q, px, psc) == [s EXCEPT !.exit_amt = @ + q * (px + psc)]

\* metrics.py:146, 165  with the whole fill set against the open position
matched_whole(qty, open_qty) == qty

\* metrics.py:146, 165  the part of the fill that reduces the open position
matched(qty, open_qty) == Min(qty, open_qty)

\* metrics.py:152, 171  with nothing left over to open the opposite side
remainder_none(qty, used) == 0

\* metrics.py:152, 171  what is left of the fill once the position is flat
remainder(qty, used) == qty - used

\* metrics.py:139-156  a BUY row: the state of the symbol and the trade list
buy_row(s, ts, sym, dt, qty, px, psc) ==
    IF s.pos >= 0
    THEN [s |-> [add_long_entry(s, qty, dt, px, psc) EXCEPT !.pos = @ + qty],
          trades |-> ts]
    ELSE LET cover == matched(qty, -s.pos)
             s1 == IF cover > 0
                   THEN [add_short_exit(s, cover, px, psc) EXCEPT !.pos = @ + cover]
                   ELSE s
             c1 == IF cover > 0 /\ s1.pos = 0
                   THEN close_trade(s1, ts, sym, dt)
                   ELSE [s |-> s1, trades |-> ts]
             rem == remainder(qty, cover)
         IN [s |-> IF rem > 0
                   THEN [add_long_entry(c1.s, rem, dt, px, psc) EXCEPT !.pos = @ + rem]
                   ELSE c1.s,
             trades |-> c1.trades]

\* metrics.py:158-175  a SELL row
sell_row(s, ts, sym, dt, qty, px, psc) ==
    IF s.pos <= 0
    THEN [s |-> [add_short_entry(s, qty, dt, px, psc) EXCEPT !.pos = @ - qty],
          trades |-> ts]
    ELSE LET exitq == matched(qty, s.pos)
             s1 == IF exitq > 0
                   THEN [add_long_exit(s, exitq, px, psc) EXCEPT !.pos = @ - exitq]
                   ELSE s
             c1 == IF exitq > 0 /\ s1.pos = 0
                   THEN close_trade(s1, ts, sym, dt)
                   ELSE [s |-> s1, trades |-> ts]
             rem == remainder(qty, exitq)
         IN [s |-> IF rem > 0
                   THEN [add_short_entry(c1.s, rem, dt, px, psc) EXCEPT !.pos = @ - rem]
                   ELSE c1.s,
             trades |-> c1.trades]

\* metrics.py:82-177  the body of the loop for one row r
process_row(st, ts, r) ==
    LET psc == per_share_comm(r.commission, r.qty)
        res == IF r.side = "BUY"
               THEN buy_row(st[r.symbol], ts, r.symbol, r.date, r.qty, r.price, psc)
               ELSE sell_row(st[r.symbol], ts, r.symbol, r.date, r.qty, r.price, psc)
    IN [state |-> [st EXCEPT ![r.symbol] = res.s], trades |-> res.trades]

RECURSIVE after_rows(_, _)
\* metrics.py:81-177  state and trades once the first m rows are processed
after_rows(rows, m) ==
    IF m = 0 THEN [state |-> [s \in SymSet |-> fresh_state], trades |-> << >>]
    ELSE LET before == after_rows(rows, m - 1)
         IN process_row(before.state, before.trades, rows[m])

\* metrics.py:58-180  the function as a whole
round_trip_trades(fs) ==
    IF fs = << >> THEN << >>
    ELSE after_rows(sort_values(frame(fs)), Len(fs)).trades

\* round_trip_trades is called with a list of at most MaxFills fills
RtInit ==
    /\ IdleBut("round_trip_trades")
    /\ \E n \in 0..MaxFills, comm \in Commissions :
         \E cs \in [1..n -> FillChoices] :
            in_fills = [k \in 1..n |-> make_fill(k, cs[k], comm)]
    /\ df = << >>
    /\ row = 0
    /\ state = [s \in SymSet |-> fresh_state]
    /\ trades = << >>
    /\ rt_pc = "call"

\* metrics.py:68-81  the early return on an empty list, else the sorted frame
BuildFrame ==
    /\ rt_pc = "call"
    /\ IF in_fills = << >>
       THEN /\ rt_pc' = "returned"
            /\ UNCHANGED <<df, row>>
       ELSE /\ df' = sort_values(frame(in_fills))
            /\ row' = 1
            /\ rt_pc' = "rows"
    /\ UNCHANGED <<in_fills, state, trades, beside_rt>>

\* metrics.py:82-177  one iteration of the loop over the rows
ProcessRow ==
    /\ rt_pc = "rows" /\ row <= Len(df)
    /\ LET res == process_row(state, trades, df[row])
       IN /\ state' = res.state
          /\ trades' = res.trades
    /\ row' = row + 1
    /\ UNCHANGED <<in_fills, df, rt_pc, beside_rt>>

\* metrics.py:179-180  the loop is over: return trades
ReturnTrades ==
    /\ rt_pc = "rows" /\ row > Len(df)
    /\ rt_pc' = "returned"
    /\ UNCHANGED <<in_fills, df, row, state, trades, beside_rt>>

RtNext == BuildFrame \/ ProcessRow \/ ReturnTrades

RtSpec == RtInit /\ [][RtNext]_vars

\* The fills with cash_after and equity_after blanked
scrubbed(fs) ==
    [k \in 1..Len(fs) |-> [fs[k] EXCEPT !.cash_after = 0, !.equity_after = 0]]

\* C14: the trade list a call returns is the one round_trip_trades yields for
\* that fill list on any call, it is also the one yielded for the same fills
\* with cash_after and equity_after blanked, and no step of the call changes
\* the fill list or a Fill in it
C14_DeterministicIdempotent ==
    /\ [](rt_pc = "returned" =>
            /\ trades = round_trip_trades(in_fills)
            /\ trades = round_trip_trades(scrubbed(in_fills)))
    /\ [][in_fills' = in_fills]_vars

\* C14 witness: a call returned a trade for an unsorted list of three fills
\* that carry a commission
C14_Witness ==
    /\ rt_pc = "returned"
    /\ Len(in_fills) = 3
    /\ df # frame(in_fills)
    /\ in_fills[1].commission > 0
    /\ Len(trades) >= 1

\* The signed quantity of a row: bought shares count up, sold shares down
RowSigned(r) == IF r.side = "BUY" THEN r.qty ELSE -r.qty

RECURSIVE RowPos(_, _)
\* The running position of sym after the first m rows of the sorted frame
RowPos(sym, m) ==
    IF m = 0 THEN 0
    ELSE RowPos(sym, m - 1) + (IF df[m].symbol = sym THEN RowSigned(df[m]) ELSE 0)

\* Row m brings the running position of its symbol from nonzero to zero or
\* through zero to the opposite sign
ReachesZero(m) ==
    LET before == RowPos(df[m].symbol, m - 1)
        after == RowPos(df[m].symbol, m)
    IN before # 0 /\ before * after <= 0

\* The trades of sym in ts
TradesOf(ts, sym) == {k \in 1..Len(ts) : ts[k].symbol = sym}

\* C15 as stated: a Trade is emitted only by a row after which the running
\* position of its symbol is exactly zero, and at the return the number of
\* trades of a symbol is the number of rows after which its running position
\* is zero
C15_EmittedOnlyWhenFlat ==
    /\ [][Len(trades') > Len(trades) => RowPos(df[row].symbol, row) = 0]_vars
    /\ [](rt_pc = "returned" =>
            \A sym \in SymSet :
                Cardinality(TradesOf(trades, sym)) =
                    Cardinality({m \in 1..Len(df) :
                                    df[m].symbol = sym /\ RowPos(sym, m) = 0}))

\* C15 amended: a step emits exactly one Trade if it processes a row during
\* which the running position of the row's symbol reaches zero (it ends at zero
\* or, for a flip, on the opposite side) and no Trade otherwise; the Trade is of
\* that symbol and exits on that row's date. So the trades of a symbol number
\* the rows at which its position returned to or crossed zero, and a position
\* that is open at the end has no Trade.
C15_EmittedWhenZeroReached ==
    /\ [][LET emits == rt_pc = "rows" /\ row <= Len(df) /\ ReachesZero(row)
          IN /\ Len(trades') = Len(trades) + (IF emits THEN 1 ELSE 0)
             /\ emits => /\ trades'[Len(trades')].symbol = df[row].symbol
                         /\ trades'[Len(trades')].exit_date = df[row].date]_vars
    /\ [](rt_pc = "returned" =>
            \A sym \in SymSet :
                Cardinality(TradesOf(trades, sym)) =
                    Cardinality({m \in 1..Len(df) :
                                    df[m].symbol = sym /\ ReachesZero(m)}))

\* C15 witness: the call returned a Trade emitted by a row that left its symbol
\* with an open position, which the rest of the list did not close
C15_Witness ==
    /\ rt_pc = "returned"
    /\ \E m \in 1..Len(df) :
          /\ ReachesZero(m)
          /\ RowPos(df[m].symbol, m) # 0
          /\ RowPos(df[m].symbol, Len(df)) # 0
          /\ Cardinality(TradesOf(trades, df[m].symbol)) = 1

\* Row m is larger than the open position it runs against: a SELL against a
\* smaller long, or a BUY against a smaller short
FlipRow(m) ==
    LET p == RowPos(df[m].symbol, m - 1)
    IN \/ df[m].side = "SELL" /\ 0 < p /\ p < df[m].qty
       \/ df[m].side = "BUY" /\ p < 0 /\ -p < df[m].qty

\* The fills [BUY 1 @10, SELL 2 @12] of one symbol without commission
FlipExample ==
    /\ Len(in_fills) = 2
    /\ in_fills[1].symbol = "AAA" /\ in_fills[2].symbol = "AAA"
    /\ in_fills[1].side = "BUY" /\ in_fills[1].qty = 1 /\ in_fills[1].price = 10
    /\ in_fills[2].side = "SELL" /\ in_fills[2].qty = 2 /\ in_fills[2].price = 12
    /\ in_fills[1].commission = 0

\* C16: a row of q shares against an open position of p < q shares on the
\* other side emits exactly one Trade, of the side that was open, exiting on
\* the row's date with p shares of this row valued into its exit amount; the
\* q - p remaining shares open a trade of the opposite side, entered on the
\* row's date and not emitted. [BUY 1 @10, SELL 2 @12] without commission
\* returns one LONG trade (qty 1, entry 10, exit 12, pnl 2) and leaves a SHORT
\* of 1 open.
C16_FlipCorrectness ==
    /\ [][(rt_pc = "rows" /\ row <= Len(df) /\ FlipRow(row)) =>
            LET r == df[row]
                sell == r.side = "SELL"
                p == Abs(RowPos(r.symbol, row - 1))
                psc == r.commission \div r.qty
                value == IF sell THEN r.price - psc ELSE r.price + psc
                t == trades'[Len(trades')]
                s2 == state'[r.symbol]
            IN /\ Len(trades') = Len(trades) + 1
               /\ t.symbol = r.symbol
               /\ t.side = (IF sell THEN "LONG" ELSE "SHORT")
               /\ t.exit_date = r.date
               /\ t.exit_amount = state[r.symbol].exit_amt + p * value
               /\ s2.pos = (IF sell THEN -(r.qty - p) ELSE r.qty - p)
               /\ s2.entry_side = (IF sell THEN "SHORT" ELSE "LONG")
               /\ s2.entry_date = r.date
               /\ s2.qty_total = r.qty - p
               /\ s2.entry_amt = (r.qty - p) * value
               /\ s2.exit_amt = 0]_vars
    /\ []((rt_pc = "returned" /\ FlipExample) =>
            /\ Len(trades) = 1
            /\ trades[1].side = "LONG" /\ trades[1].qty = 1
            /\ trades[1].entry_amount = 10 /\ trades[1].exit_amount = 12
            /\ trades[1].pnl = 2
            /\ state["AAA"].pos = -1 /\ state["AAA"].entry_side = "SHORT")

\* C16 witness: the example list was reconstructed
C16_Witness == rt_pc = "returned" /\ FlipExample /\ Len(trades) = 1

\* The number of rows the loop has processed
Processed == IF row = 0 THEN 0 ELSE row - 1

RECURSIVE RowsValue(_, _, _)
\* What the first m rows bought (side = "BUY") or sold (side = "SELL") of sym,
\* every BUY of q shares valued at q x (price + commission / q) and every SELL
\* at q x (price - commission / q)
RowsValue(sym, side, m) ==
    IF m = 0 THEN 0
    ELSE RowsValue(sym, side, m - 1) +
         (IF df[m].symbol = sym /\ df[m].side = side
          THEN IF side = "BUY"
               THEN df[m].qty * (df[m].price + df[m].commission \div df[m].qty)
               ELSE df[m].qty * (df[m].price - df[m].commission \div df[m].qty)
          ELSE 0)

RECURSIVE TradesValue(_, _, _, _)
\* What the first k trades of ts record as bought or sold of sym: a LONG trade
\* buys its entry amount and sells its exit amount, a SHORT trade the reverse
TradesValue(ts, sym, side, k) ==
    IF k = 0 THEN 0
    ELSE TradesValue(ts, sym, side, k - 1) +
         (IF ts[k].symbol # sym THEN 0
          ELSE IF (ts[k].side = "LONG") = (side = "BUY")
               THEN ts[k].entry_amount ELSE ts[k].exit_amount)

\* What the open trade of a symbol records as bought or sold
OpenValue(s, side) ==
    IF s.entry_side = "None" THEN 0
    ELSE IF (s.entry_side = "LONG") = (side = "BUY") THEN s.entry_amt ELSE s.exit_amt

\* C17: every Trade has pnl = exit_amount - entry_amount if LONG and
\* entry_amount - exit_amount if SHORT; the amounts of the emitted trades and
\* of the open trade of a symbol add up to its processed BUY rows valued at
\* q x (price + commission / q) and its SELL rows at q x (price - commission / q);
\* with prices rising with the date and no commission, a trade that exits after
\* it was entered has pnl > 0 if LONG and pnl < 0 if SHORT
C17_PnlAndLegValues ==
    /\ \A k \in 1..Len(trades) :
          LET t == trades[k]
          IN /\ t.side \in {"LONG", "SHORT"}
             /\ t.side = "LONG" => t.pnl = t.exit_amount - t.entry_amount
             /\ t.side = "SHORT" => t.pnl = t.entry_amount - t.exit_amount
             /\ (t.entry_date < t.exit_date /\
                 \A m \in 1..Len(df) : df[m].commission = 0) =>
                   /\ t.side = "LONG" => t.pnl > 0
                   /\ t.side = "SHORT" => t.pnl < 0
    /\ \A sym \in SymSet, side \in Sides :
          TradesValue(trades, sym, side, Len(trades)) + OpenValue(state[sym], side)
              = RowsValue(sym, side, Processed)

\* C17 witness: without commission and with rising prices, the call returned
\* a losing SHORT trade of two shares, held over two days and built from
\* three rows
C17_Witness ==
    /\ rt_pc = "returned"
    /\ Len(df) = 3
    /\ df[1].commission = 0
    /\ \E k \in 1..Len(trades) :
          /\ trades[k].side = "SHORT"
          /\ trades[k].entry_date < trades[k].exit_date
          /\ trades[k].qty = 2
          /\ trades[k].pnl < 0

RECURSIVE SumQty(_)
\* The shares of the rows whose indices are in S
SumQty(S) ==
    IF S = {} THEN 0
    ELSE LET m == CHOOSE x \in S : TRUE IN df[m].qty + SumQty(S \ {m})

\* The rows before m at which the position that row m runs against was opened
\* from flat and since which it stayed on the same side of zero
BuiltFrom(m) ==
    {a \in 1..(m - 1) :
        /\ df[a].symbol = df[m].symbol
        /\ RowPos(df[m].symbol, a - 1) = 0
        /\ \A b \in a..(m - 1) : RowPos(df[m].symbol, b) * RowSigned(df[a]) > 0}

\* C18: when a row brings to zero a position that was opened from flat by row a
\* and built and reduced by the rows in between, the step emits exactly one
\* Trade; its side is that of row a, its qty is the sum of the entry rows'
\* quantities and also the sum of the exit rows' quantities, its entry_date is
\* the date of row a, its exit_date the date of the closing row, and
\* entry_date <= exit_date
C18_PartialsAggregate ==
    [][(rt_pc = "rows" /\ row <= Len(df) /\ BuiltFrom(row) # {} /\
        RowPos(df[row].symbol, row) = 0) =>
          LET a == CHOOSE x \in BuiltFrom(row) : TRUE
              mine == {b \in a..row : df[b].symbol = df[row].symbol}
              entries == {b \in mine : df[b].side = df[a].side}
              t == trades'[Len(trades')]
          IN /\ Len(trades') = Len(trades) + 1
             /\ t.symbol = df[row].symbol
             /\ t.side = (IF df[a].side = "BUY" THEN "LONG" ELSE "SHORT")
             /\ t.qty = SumQty(entries)
             /\ t.qty = SumQty(mine \ entries)
             /\ t.entry_date = df[a].date
             /\ t.exit_date = df[row].date
             /\ t.entry_date <= t.exit_date]_vars

\* C18 witness: one Trade of two shares was returned for a position entered
\* by two fills on different dates and closed by a third, handed in unsorted
C18_Witness ==
    /\ rt_pc = "returned"
    /\ Len(df) = 3
    /\ df # frame(in_fills)
    /\ df[1].symbol = df[3].symbol
    /\ df[1].side = df[2].side /\ df[3].side # df[1].side
    /\ df[1].date < df[2].date
    /\ Len(trades) = 1 /\ trades[1].qty = 2

\* C19: every Trade has duration_days equal to the whole days from its entry
\* date to its exit date, and 1 where that is less than one day
C19_DurationAtLeastOne ==
    \A k \in 1..Len(trades) :
        LET days == trades[k].exit_date - trades[k].entry_date
        IN /\ trades[k].duration_days >= 1
           /\ days >= 1 => trades[k].duration_days = days
           /\ days < 1 => trades[k].duration_days = 1

\* C19 witness: the call returned a trade entered and exited on the same date
\* and a trade held for two days
C19_Witness ==
    /\ rt_pc = "returned"
    /\ \E k \in 1..Len(trades) :
          trades[k].entry_date = trades[k].exit_date /\ trades[k].duration_days = 1
    /\ \E k \in 1..Len(trades) : trades[k].duration_days = 2

\* C38: after every row the accumulator of each symbol has a running position
\* equal to the BUY quantities minus the SELL quantities of its rows so far,
\* no open trade iff that position is 0, an open LONG iff it is > 0 and an
\* open SHORT iff it is < 0; and a Trade that a row emits has the side of the
\* position the row found
C38_AccumulatorMatchesPosition ==
    /\ [](\A sym \in SymSet :
            LET s == state[sym]
            IN /\ s.pos = RowPos(sym, Processed)
               /\ s.entry_side = "None" <=> s.pos = 0
               /\ s.entry_side = "LONG" <=> s.pos > 0
               /\ s.entry_side = "SHORT" <=> s.pos < 0)
    /\ [][Len(trades') > Len(trades) =>
            LET found == state[df[row].symbol].pos
            IN /\ found # 0
               /\ trades'[Len(trades')].side = (IF found > 0 THEN "LONG" ELSE "SHORT")]_vars

\* C38 witness: a call returned a LONG trade of a symbol that a flip left
\* with an open SHORT
C38_Witness ==
    /\ rt_pc = "returned"
    /\ \E k \in 1..Len(trades) :
          /\ trades[k].side = "LONG"
          /\ state[trades[k].symbol].entry_side = "SHORT"
          /\ state[trades[k].symbol].pos = -1

MaxPerSymbol == 2                \* fills of one symbol in an interleaved list

\* Fills for lists that interleave the symbols: one share bought or two sold
\* on either date, so that a list of two fills per symbol holds partial
\* exits, flips and closed trades of both sides
InterleavedChoices ==
    {c \in FillChoices : c.qty = (IF c.side = "BUY" THEN 1 ELSE 2)}

\* round_trip_trades is called with a list that holds at most MaxPerSymbol
\* fills of each symbol, in any order, without commission
RtInterleavedInit ==
    /\ IdleBut("round_trip_trades")
    /\ \E n \in 0..(MaxPerSymbol + Len(Symbols)) :
         \E cs \in [1..n -> InterleavedChoices] :
            /\ \A sym \in SymSet :
                  Cardinality({k \in 1..n : cs[k].symbol = sym}) <= MaxPerSymbol
            /\ in_fills = [k \in 1..n |-> make_fill(k, cs[k], 0)]
    /\ df = << >>
    /\ row = 0
    /\ state = [s \in SymSet |-> fresh_state]
    /\ trades = << >>
    /\ rt_pc = "call"

RtInterleavedSpec == RtInterleavedInit /\ [][RtNext]_vars

\* The members of sym among the first k fills or trades of a list, in order
RECURSIVE Only(_, _, _)
Only(seq, sym, k) ==
    IF k = 0 THEN << >>
    ELSE IF seq[k].symbol = sym THEN Append(Only(seq, sym, k - 1), seq[k])
         ELSE Only(seq, sym, k - 1)

\* C39: the trades returned for a symbol are, in order, the trades that
\* round_trip_trades returns for that symbol's fills alone, whatever fills of
\* other symbols the list holds and wherever they stand in it; and the list
\* returned holds the trades symbol by symbol, each symbol's trades in
\* ascending exit-date order
C39_SymbolsIndependent ==
    rt_pc = "returned" =>
        /\ \A sym \in SymSet :
              Only(trades, sym, Len(trades))
                  = round_trip_trades(Only(in_fills, sym, Len(in_fills)))
        /\ \A a \in 1..Len(trades) : \A b \in 1..Len(trades) :
              a < b =>
                 /\ SymIndex(trades[a].symbol) <= SymIndex(trades[b].symbol)
                 /\ trades[a].symbol = trades[b].symbol =>
                        trades[a].exit_date <= trades[b].exit_date

\* C39 witness: four fills that alternate between the symbols, the symbol
\* that sorts last first, returned one trade for each symbol, the trade of
\* the symbol that sorts first exiting later
C39_Witness ==
    /\ rt_pc = "returned"
    /\ Len(in_fills) = 4
    /\ in_fills[1].symbol = "BBB" /\ in_fills[2].symbol = "AAA"
    /\ in_fills[3].symbol = "BBB" /\ in_fills[4].symbol = "AAA"
    /\ Len(trades) = 2
    /\ trades[1].symbol = "AAA" /\ trades[2].symbol = "BBB"
    /\ trades[1].exit_date > trades[2].exit_date

RECURSIVE NetCash(_, _)
\* What the first k fills handed in paid out and took in for sym: every SELL
\* counts qty x price - commission, every BUY -(qty x price + commission)
NetCash(sym, k) ==
    IF k = 0 THEN 0
    ELSE NetCash(sym, k - 1) +
         (IF in_fills[k].symbol # sym THEN 0
          ELSE IF in_fills[k].side = "SELL"
               THEN in_fills[k].qty * in_fills[k].price - in_fills[k].commission
               ELSE -(in_fills[k].qty * in_fills[k].price + in_fills[k].commission))

RECURSIVE SumPnl(_, _, _)
\* The pnl of the trades of sym among the first k trades of ts
SumPnl(ts, sym, k) ==
    IF k = 0 THEN 0
    ELSE SumPnl(ts, sym, k - 1) + (IF ts[k].symbol = sym THEN ts[k].pnl ELSE 0)

\* C40: for a symbol whose running position ends at zero the pnl of its
\* returned trades adds up to its SELL fills' qty x price - commission minus
\* its BUY fills' qty x price + commission; and a flip fill's commission goes
\* to the leg that closes and the leg that opens in proportion to their
\* shares, the two parts adding up to the commission of the fill
C40_PnlConservation ==
    /\ [](rt_pc = "returned" =>
            \A sym \in SymSet :
                RowPos(sym, Len(df)) = 0 =>
                    SumPnl(trades, sym, Len(trades)) = NetCash(sym, Len(in_fills)))
    /\ [][(rt_pc = "rows" /\ row <= Len(df) /\ FlipRow(row)) =>
            LET r == df[row]
                p == Abs(RowPos(r.symbol, row - 1))
                closing == Abs((trades'[Len(trades')].exit_amount
                                  - state[r.symbol].exit_amt) - p * r.price)
                opening == Abs(state'[r.symbol].entry_amt - (r.qty - p) * r.price)
            IN /\ closing + opening = r.commission
               /\ closing * (r.qty - p) = opening * p]_vars

\* C40 witness: with a commission on every fill, a symbol was bought, flipped
\* short by a larger sale and bought back to flat, which returned a LONG and
\* a SHORT trade
C40_Witness ==
    /\ rt_pc = "returned"
    /\ Len(df) = 3
    /\ df[1].commission > 0
    /\ df[1].symbol = df[3].symbol /\ df[2].symbol = df[1].symbol
    /\ FlipRow(2)
    /\ RowPos(df[1].symbol, 3) = 0
    /\ Len(trades) = 2
    /\ trades[1].side # trades[2].side

\* ---------------------------------------------------------------------------
\* portfolio.Portfolio._apply_fill
\* ---------------------------------------------------------------------------

MaxApply == 3                    \* calls of _apply_fill on one Portfolio

StartCash == {100}               \* Portfolio(cash=...)
FillPrices == {10, 12}           \* the price argument
FlatFees == {1}                  \* the commission argument
LedgerSides == {"BUY", "SELL", "sell"}   \* the side argument: any string

\* portfolio.py:33  with a default of 1 for a symbol the snapshot lacks
price_get_default_one(prices, sym) ==
    IF sym \in DOMAIN prices THEN prices[sym] ELSE 1

\* portfolio.py:33  prices.get(sym, 0.0)
price_get(prices, sym) == IF sym \in DOMAIN prices THEN prices[sym] ELSE 0

RECURSIVE pf_market_value(_, _, _)
\* portfolio.py:30-34  market_value over the known ones of the first k symbols
pf_market_value(pos, prices, k) ==
    IF k = 0 THEN 0
    ELSE pf_market_value(pos, prices, k - 1) +
         (IF pos[Symbols[k]].known
          THEN pos[Symbols[k]].qty * price_get(prices, Symbols[k])
          ELSE 0)

\* portfolio.py:36-37  with the market value left out
pf_equity_cash_only(c, pos, prices) == c

\* portfolio.py:36-37
pf_equity(c, pos, prices) == c + pf_market_value(pos, prices, Len(Symbols))

\* prices_now as the tests pass it: a snapshot that holds the filled symbol
\* only, at the fill price
prices_now(symbol, price) == [s \in {symbol} |-> price]

\* A price snapshot that holds the symbols in D
Snapshot(D) == [s \in D |-> IF s = Symbols[1] THEN 10 ELSE 12]

\* The snapshots equity() is called with: empty, one symbol missing, complete
Snapshots == {Snapshot({}), Snapshot({Symbols[1]}), Snapshot(SymSet)}

\* portfolio.py:45  with the price of the latest fill kept as the average
buy_avg_cost_latest(avg, old_qty, notional, new_qty) ==
    IF new_qty # 0 THEN [num |-> notional, den |-> new_qty - old_qty]
    ELSE [num |-> 0, den |-> 1]

\* portfolio.py:45  (avg_cost * qty + notional) / new_qty if new_qty else 0.0,
\* on fractions
buy_avg_cost(avg, old_qty, notional, new_qty) ==
    IF new_qty # 0
    THEN [num |-> avg.num * old_qty + notional * avg.den, den |-> avg.den * new_qty]
    ELSE [num |-> 0, den |-> 1]

\* portfolio.py:48-51  with avg_cost reset by every sell
sell_avg_cost_reset(avg, new_qty) == [num |-> 0, den |-> 1]

\* portfolio.py:48-51  avg_cost after a sell: 0.0 if pos.qty == 0, else as it was
sell_avg_cost(avg, new_qty) ==
    IF new_qty = 0 THEN [num |-> 0, den |-> 1] ELSE avg

\* portfolio.py:40  setdefault(symbol, Position(symbol))
setdefault(pos, symbol) ==
    IF pos[symbol].known THEN pos[symbol]
    ELSE [known |-> TRUE, qty |-> 0, avg_cost |-> [num |-> 0, den |-> 1]]

\* portfolio.py:40-51  what _apply_fill leaves in cash and positions
apply_fill(c, held, symbol, side, qty, price, fee) ==
    LET pos == setdefault(held, symbol)
        notional == qty * price
        new_qty == IF side = "BUY" THEN pos.qty + qty ELSE pos.qty - qty
        new_avg == IF side = "BUY"
                   THEN buy_avg_cost(pos.avg_cost, pos.qty, notional, new_qty)
                   ELSE sell_avg_cost(pos.avg_cost, new_qty)
    IN [cash |-> IF side = "BUY" THEN c - (notional + fee) ELSE c + (notional - fee),
        positions |-> [held EXCEPT ![symbol] = [known |-> TRUE, qty |-> new_qty,
                                                avg_cost |-> new_avg]]]

\* A Portfolio is constructed; every fill will carry the same commission
LedgerInit ==
    /\ IdleBut("portfolio")
    /\ \E c \in StartCash : NewPortfolio(c)
    /\ pf_commission \in FlatFees
    /\ equity_out = not_called

\* portfolio.py:39-52  _apply_fill(date, symbol, side, qty, price, commission,
\* prices_now)
ApplyFill ==
    /\ Len(pf_fills) < MaxApply
    /\ \E symbol \in SymSet, side \in LedgerSides, qty \in Quantities,
          price \in FillPrices :
         LET after == apply_fill(pf_cash, pf_positions, symbol, side, qty, price,
                                 pf_commission)
             new_cash == after.cash
             new_pos == after.positions
         IN /\ pf_cash' = new_cash
            /\ pf_positions' = new_pos
            /\ pf_fills' = Append(pf_fills,
                  [date |-> Len(pf_fills) + 1, symbol |-> symbol, side |-> side,
                   qty |-> qty, price |-> price, commission |-> pf_commission,
                   cash_after |-> new_cash,
                   equity_after |-> pf_equity(new_cash, new_pos,
                                              prices_now(symbol, price))])
    /\ equity_out' = not_called
    /\ UNCHANGED <<pf_commission, beside_pf>>

\* portfolio.py:36-37  equity(prices), called from outside
Equity ==
    /\ \E prices \in Snapshots :
         equity_out' = [called |-> TRUE, prices |-> prices,
                        value |-> pf_equity(pf_cash, pf_positions, prices)]
    /\ UNCHANGED <<pf_cash, pf_positions, pf_fills, pf_commission, beside_pf>>

LedgerNext == ApplyFill \/ Equity

LedgerSpec == LedgerInit /\ [][LedgerNext]_vars

RECURSIVE PfRunning(_, _)
\* The shares of sym held after the first k fills of the Portfolio
PfRunning(sym, k) ==
    IF k = 0 THEN 0
    ELSE PfRunning(sym, k - 1) +
         (IF pf_fills[k].symbol = sym THEN SignedQty(pf_fills[k]) ELSE 0)

\* The fills of sym since it was last flat
SinceFlat(sym) ==
    LET n == Len(pf_fills)
        flat == CHOOSE m \in 0..n :
                    /\ PfRunning(sym, m) = 0
                    /\ \A x \in (m + 1)..n : PfRunning(sym, x) # 0
    IN IF PfRunning(sym, n) = 0 THEN {}
       ELSE {k \in (flat + 1)..n : pf_fills[k].symbol = sym}

RECURSIVE PfNotional(_)
\* qty x price summed over the fills whose indices are in S
PfNotional(S) ==
    IF S = {} THEN 0
    ELSE LET k == CHOOSE x \in S : TRUE
         IN pf_fills[k].qty * pf_fills[k].price + PfNotional(S \ {k})

\* C20: a BUY through _apply_fill lowers cash by qty x price + commission,
\* raises the quantity of the symbol's position by qty (from 0 if the symbol
\* was unknown, which then is known) and leaves the other positions alone; and
\* when all fills of a symbol since it was flat are BUYs, avg_cost x qty is the
\* notional they bought
C20_BuyAppliesFill ==
    /\ [][(Len(pf_fills') = Len(pf_fills) + 1 /\ pf_fills'[Len(pf_fills')].side = "BUY") =>
            LET f == pf_fills'[Len(pf_fills')]
                held == IF pf_positions[f.symbol].known
                        THEN pf_positions[f.symbol].qty ELSE 0
            IN /\ pf_cash' = pf_cash - (f.qty * f.price + f.commission)
               /\ pf_positions'[f.symbol].known
               /\ pf_positions'[f.symbol].qty = held + f.qty
               /\ \A s \in SymSet \ {f.symbol} : pf_positions'[s] = pf_positions[s]
               /\ f.cash_after = pf_cash']_vars
    /\ [](\A sym \in SymSet :
            (SinceFlat(sym) # {} /\ \A k \in SinceFlat(sym) : pf_fills[k].side = "BUY") =>
                /\ pf_positions[sym].qty > 0
                /\ pf_positions[sym].avg_cost.num * pf_positions[sym].qty
                      = pf_positions[sym].avg_cost.den * PfNotional(SinceFlat(sym)))

\* C20 witness: with a commission, a symbol unknown to the Portfolio was bought
\* twice at different prices, after a fill of the other symbol
C20_Witness ==
    /\ pf_commission = 1
    /\ Len(pf_fills) = 3
    /\ pf_fills[1].symbol # pf_fills[2].symbol
    /\ pf_fills[2].side = "BUY" /\ pf_fills[3].side = "BUY"
    /\ pf_fills[2].symbol = pf_fills[3].symbol
    /\ pf_fills[2].price # pf_fills[3].price
    /\ pf_positions[pf_fills[3].symbol].qty = 3

\* C21: a fill through _apply_fill with any side other than BUY raises cash by
\* qty x price - commission and lowers the quantity of the symbol's position
\* by qty (from 0 if the symbol was unknown); avg_cost becomes 0 if the new
\* quantity is zero and otherwise stays what it was
C21_SellAppliesFill ==
    [][(Len(pf_fills') = Len(pf_fills) + 1 /\ pf_fills'[Len(pf_fills')].side # "BUY") =>
         LET f == pf_fills'[Len(pf_fills')]
             before == pf_positions[f.symbol]
             after == pf_positions'[f.symbol]
         IN /\ pf_cash' = pf_cash + (f.qty * f.price - f.commission)
            /\ after.known
            /\ after.qty = before.qty - f.qty
            /\ after.qty = 0 => after.avg_cost.num = 0
            /\ after.qty # 0 => after.avg_cost = before.avg_cost
            /\ \A s \in SymSet \ {f.symbol} : pf_positions'[s] = pf_positions[s]
            /\ f.cash_after = pf_cash']_vars

\* C21 witness: with a commission, two shares were bought, one was sold, which
\* left the average cost in place, and the sale of the other reset it
C21_Witness ==
    /\ pf_commission = 1
    /\ Len(pf_fills) = 3
    /\ \A k \in 1..3 : pf_fills[k].symbol = "AAA"
    /\ pf_fills[1].side = "BUY" /\ pf_fills[1].qty = 2
    /\ pf_fills[2].side = "SELL" /\ pf_fills[2].qty = 1
    /\ pf_fills[3].side = "sell" /\ pf_fills[3].qty = 1
    /\ pf_positions["AAA"].qty = 0
    /\ pf_positions["AAA"].avg_cost.num = 0

RECURSIVE HeldValue(_, _)
\* qty x price summed over the symbols of S that the snapshot holds
HeldValue(S, prices) ==
    IF S = {} THEN 0
    ELSE LET s == CHOOSE x \in S : TRUE
         IN pf_positions[s].qty * prices[s] + HeldValue(S \ {s}, prices)

\* C22: equity(prices) returns cash plus qty x prices[symbol] over the known
\* symbols that the snapshot holds, so a symbol absent from the snapshot adds
\* nothing and with all positions flat the result is cash; the call changes
\* neither cash nor positions nor fills
C22_Equity ==
    /\ [](equity_out.called =>
            /\ equity_out.value = pf_cash +
                  HeldValue({s \in SymSet : pf_positions[s].known}
                               \cap DOMAIN equity_out.prices, equity_out.prices)
            /\ (\A s \in SymSet : pf_positions[s].qty = 0) => equity_out.value = pf_cash)
    /\ [][equity_out'.called =>
            /\ pf_cash' = pf_cash
            /\ pf_positions' = pf_positions
            /\ pf_fills' = pf_fills]_vars

\* C22 witness: equity was taken on a snapshot that lacks BBB while the
\* Portfolio was long AAA and short BBB
C22_Witness ==
    /\ equity_out.called
    /\ DOMAIN equity_out.prices = {"AAA"}
    /\ pf_positions["AAA"].qty > 0
    /\ pf_positions["BBB"].qty < 0
    /\ equity_out.value > pf_cash

\* C31: a call of _apply_fill appends exactly one Fill and keeps the earlier
\* ones as they were; the new Fill's cash_after is the cash the call leaves and
\* its equity_after is equity(prices_now) on the cash and positions the call
\* leaves (prices_now holding the filled symbol at the fill price); cash and
\* the quantity of the named symbol change, by qty shares, and no other
\* symbol's position does
C31_OneMutationPerFill ==
    [][pf_fills' # pf_fills =>
         LET n == Len(pf_fills)
             f == pf_fills'[n + 1]
         IN /\ Len(pf_fills') = n + 1
            /\ \A k \in 1..n : pf_fills'[k] = pf_fills[k]
            /\ f.cash_after = pf_cash'
            /\ f.equity_after = pf_cash' + pf_positions'[f.symbol].qty * f.price
            /\ pf_cash' # pf_cash
            /\ pf_positions'[f.symbol].qty \in
                  {pf_positions[f.symbol].qty + f.qty, pf_positions[f.symbol].qty - f.qty}
            /\ \A s \in SymSet \ {f.symbol} : pf_positions'[s] = pf_positions[s]]_vars

\* C31 witness: the third fill left its symbol held while the other symbol,
\* filled first, was held too, so equity_after counts one of two positions
C31_Witness ==
    /\ Len(pf_fills) = 3
    /\ pf_fills[1].symbol # pf_fills[3].symbol
    /\ pf_positions[pf_fills[1].symbol].qty # 0
    /\ pf_positions[pf_fills[3].symbol].qty # 0
    /\ pf_fills[3].equity_after # pf_fills[3].cash_after
    /\ pf_fills[3].cash_after = pf_cash

\* ---------------------------------------------------------------------------
\* metrics.trade_statistics
\* ---------------------------------------------------------------------------

MaxTrades == 3                   \* length of the trade list handed in

PnLs == {-2, 0, 3}               \* Trade.pnl
Durations == {1, 2}              \* Trade.duration_days

\* metrics.py:46-56  what trade_statistics reads of a Trade
TradeChoices == [pnl : PnLs, duration_days : Durations]

RECURSIVE sum_wins(_)
\* metrics.py:188, 193  sum(wins), wins = [p for p in pnls if p > 0]
sum_wins(ts) ==
    IF ts = << >> THEN 0
    ELSE (IF Head(ts).pnl > 0 THEN Head(ts).pnl ELSE 0) + sum_wins(Tail(ts))

RECURSIVE sum_losses(_)
\* metrics.py:189, 194  sum(losses), losses = [-p for p in pnls if p < 0]
sum_losses(ts) ==
    IF ts = << >> THEN 0
    ELSE (IF Head(ts).pnl < 0 THEN -Head(ts).pnl ELSE 0) + sum_losses(Tail(ts))

RECURSIVE len_wins_nonneg(_)
\* metrics.py:188  with a pnl of zero counted as a win
len_wins_nonneg(ts) ==
    IF ts = << >> THEN 0
    ELSE (IF Head(ts).pnl >= 0 THEN 1 ELSE 0) + len_wins_nonneg(Tail(ts))

RECURSIVE len_wins(_)
\* metrics.py:188  len(wins)
len_wins(ts) ==
    IF ts = << >> THEN 0
    ELSE (IF Head(ts).pnl > 0 THEN 1 ELSE 0) + len_wins(Tail(ts))

RECURSIVE sum_durations(_)
\* metrics.py:199  the sum under np.mean
sum_durations(ts) ==
    IF ts = << >> THEN 0 ELSE Head(ts).duration_days + sum_durations(Tail(ts))

\* metrics.py:195-198  with 0 in place of +infinity
profit_factor_no_inf(gross_profit, gross_loss) ==
    IF gross_loss > 0 THEN [inf |-> FALSE, num |-> gross_profit, den |-> gross_loss]
    ELSE [inf |-> FALSE, num |-> 0, den |-> 1]

\* metrics.py:195-198  a fraction num / den, or +infinity
profit_factor(gross_profit, gross_loss) ==
    IF gross_loss > 0 THEN [inf |-> FALSE, num |-> gross_profit, den |-> gross_loss]
    ELSE IF gross_profit > 0 THEN [inf |-> TRUE, num |-> 0, den |-> 1]
    ELSE [inf |-> FALSE, num |-> 0, den |-> 1]

\* metrics.py:182-207  the dictionary returned; ratios are fractions num / den
trade_statistics(ts) ==
    IF ts = << >>
    THEN [no_stats EXCEPT !.returned = TRUE]
    ELSE LET num == Len(ts)
         IN [returned |-> TRUE,
             num_trades |-> num,
             win_rate |-> IF num # 0 THEN [num |-> 100 * len_wins(ts), den |-> num]
                          ELSE [num |-> 0, den |-> 1],
             profit_factor |-> profit_factor(sum_wins(ts), sum_losses(ts)),
             avg_duration_days |-> [num |-> sum_durations(ts), den |-> num],
             gross_profit |-> sum_wins(ts),
             gross_loss |-> sum_losses(ts)]

\* trade_statistics is about to be called with at most MaxTrades trades
StatsInit ==
    /\ IdleBut("trade_statistics")
    /\ \E n \in 0..MaxTrades : st_trades \in [1..n -> TradeChoices]
    /\ stats = no_stats

\* metrics.py:182-207  the call
TradeStatistics ==
    /\ ~stats.returned
    /\ stats' = trade_statistics(st_trades)
    /\ UNCHANGED <<st_trades, beside_st>>

StatsNext == TradeStatistics

StatsSpec == StatsInit /\ [][StatsNext]_vars

\* The indices of the trades that won and of the trades that lost
Winners == {k \in 1..Len(st_trades) : st_trades[k].pnl > 0}
Losers == {k \in 1..Len(st_trades) : st_trades[k].pnl < 0}

RECURSIVE PnlOver(_)
\* The pnl summed over the trades whose indices are in S
PnlOver(S) ==
    IF S = {} THEN 0
    ELSE LET k == CHOOSE x \in S : TRUE IN st_trades[k].pnl + PnlOver(S \ {k})

\* C23: with gross profit the pnl summed over the winners and gross loss the
\* negated pnl summed over the losers, profit_factor is their quotient when the
\* gross loss is positive, +infinity when the gross loss is zero and the gross
\* profit positive, and 0 when both are zero
C23_ProfitFactor ==
    stats.returned =>
        LET gp == PnlOver(Winners)
            gl == -PnlOver(Losers)
            pf == stats.profit_factor
        IN /\ stats.gross_profit = gp /\ stats.gross_loss = gl
           /\ gl > 0 => ~pf.inf /\ pf.den # 0 /\ pf.num * gl = gp * pf.den
           /\ (gl = 0 /\ gp > 0) => pf.inf
           /\ (gl = 0 /\ gp = 0) => ~pf.inf /\ pf.num = 0

\* C23 witness: statistics of two winners and a loser, with a profit factor
\* of 6 / 2
C23_Witness ==
    /\ stats.returned
    /\ Cardinality(Winners) = 2 /\ Cardinality(Losers) = 1
    /\ stats.profit_factor.num = 3 * stats.profit_factor.den

\* C24: num_trades is the length of the trade list; for a list that is not
\* empty win_rate is 100 x (trades with pnl > 0) / (trades), between 0 and
\* 100; for the empty list every statistic is 0
C24_WinRate ==
    stats.returned =>
        LET n == Len(st_trades)
            wr == stats.win_rate
        IN /\ stats.num_trades = n
           /\ wr.den > 0
           /\ 0 <= wr.num /\ wr.num <= 100 * wr.den
           /\ n > 0 => wr.num * n = 100 * Cardinality(Winners) * wr.den
           /\ n = 0 => /\ wr.num = 0
                       /\ ~stats.profit_factor.inf /\ stats.profit_factor.num = 0
                       /\ stats.avg_duration_days.num = 0
                       /\ stats.gross_profit = 0 /\ stats.gross_loss = 0

\* C24 witness: statistics of a winner, a loser and a trade with pnl 0: one
\* trade in three has won
C24_Witness ==
    /\ stats.returned
    /\ Len(st_trades) = 3
    /\ Cardinality(Winners) = 1 /\ Cardinality(Losers) = 1
    /\ 3 * stats.win_rate.num = 100 * stats.win_rate.den

\* ---------------------------------------------------------------------------
\* metrics.total_return, cagr, sharpe, max_drawdown over an equity series
\* ---------------------------------------------------------------------------

MaxPoints == 3                   \* length of the equity series

EquityValues == {1, 2, 3, 4}     \* equity of a day: positive

\* What a metric returns, as far as its sign: 0.0, a positive or a negative
\* number, or NaN
Sign(x) == IF x > 0 THEN "pos" ELSE IF x < 0 THEN "neg" ELSE "zero"

\* metrics.py:13-16  equity.iloc[-1] / equity.iloc[0] - 1.0, for positive equity
total_return(eq) ==
    IF Len(eq) < 2 THEN "zero" ELSE Sign(eq[Len(eq)] - eq[1])

\* metrics.py:18-24  the index holds consecutive days, so that years is
\* (len - 1) / 365.25
cagr(eq) ==
    IF Len(eq) < 2 THEN "zero"
    ELSE IF Len(eq) - 1 <= 0 THEN "zero"
    ELSE Sign(eq[Len(eq)] - eq[1])

\* metrics.py:27  equity.pct_change().dropna(): the fractions num / den of the
\* days after the first
pct_change(eq) ==
    [k \in 1..(Len(eq) - 1) |-> [num |-> eq[k + 1] - eq[k], den |-> eq[k]]]

RECURSIVE frac_sum(_)
\* metrics.py:31  the sum under excess.mean(), with rf = 0
frac_sum(rets) ==
    IF rets = << >> THEN [num |-> 0, den |-> 1]
    ELSE LET rest == frac_sum(Tail(rets))
         IN [num |-> Head(rets).num * rest.den + rest.num * Head(rets).den,
             den |-> Head(rets).den * rest.den]

\* metrics.py:26-35  what sharpe can return. std(ddof=1) of a single return is
\* NaN, which is not == 0; the std of returns that are all 0.0 is 0.0; for
\* returns that are equal and not zero, rounding decides whether the std is 0.0
sharpe(eq) ==
    LET rets == pct_change(eq)
        mu == Sign(frac_sum(rets).num)
    IN IF Len(rets) = 0 THEN {"zero"}
       ELSE IF Len(rets) = 1 THEN {"nan"}
       ELSE IF \A k \in 1..Len(rets) : rets[k].num = 0 THEN {"zero"}
       ELSE IF \A k \in 1..Len(rets) :
                   rets[k].num * rets[1].den = rets[1].num * rets[k].den
            THEN {"zero", mu}
       ELSE {mu}

\* metrics.py:37-42  the minimum of equity / cummax - 1.0
max_drawdown(eq) ==
    IF eq = << >> THEN "zero"
    ELSE IF \E k \in 1..Len(eq) : \E h \in 1..k : eq[k] < eq[h] THEN "neg"
    ELSE "zero"

\* An equity series of at most MaxPoints days is about to be evaluated
MetricsInit ==
    /\ IdleBut("metrics")
    /\ \E n \in 0..MaxPoints : mt_equity \in [1..n -> EquityValues]
    /\ mt_out = no_metrics

\* simple_backtest.py:26-32  the four metrics of one equity series
EvaluateMetrics ==
    /\ ~mt_out.returned
    /\ \E sh \in sharpe(mt_equity) :
         mt_out' = [returned |-> TRUE,
                    total_return |-> total_return(mt_equity),
                    cagr |-> cagr(mt_equity),
                    sharpe |-> sh,
                    max_drawdown |-> max_drawdown(mt_equity)]
    /\ UNCHANGED <<mt_equity, beside_mt>>

MetricsNext == EvaluateMetrics

MetricsSpec == MetricsInit /\ [][MetricsNext]_vars

\* The daily returns of the series are all equal, or there are fewer than two
SameReturns ==
    \A a, b \in 2..Len(mt_equity) :
        (mt_equity[a] - mt_equity[a - 1]) * mt_equity[b - 1]
            = (mt_equity[b] - mt_equity[b - 1]) * mt_equity[a - 1]

\* C25: no metric returns NaN; all four return 0.0 for a series of fewer than
\* 2 points; sharpe returns 0.0 when the daily returns have zero variance or
\* no defined variance
C25_NeutralValues ==
    mt_out.returned =>
        /\ "nan" \notin {mt_out.total_return, mt_out.cagr, mt_out.sharpe,
                         mt_out.max_drawdown}
        /\ Len(mt_equity) < 2 =>
              /\ mt_out.total_return = "zero" /\ mt_out.cagr = "zero"
              /\ mt_out.sharpe = "zero" /\ mt_out.max_drawdown = "zero"
        /\ SameReturns => mt_out.sharpe = "zero"

\* ---------------------------------------------------------------------------
\* strategies.ma_crossover.MovingAverageCrossover
\* ---------------------------------------------------------------------------

MaxBars == 4                     \* length of the price series

BarPrices == {10, 12, 14}        \* Adj Close of a bar
Windows == {[short |-> 1, long |-> 2], [short |-> 2, long |-> 3]}

\* Not a number: what a rolling mean is before its window is full, and what
\* shift(1) puts in the first place
NaN == [nan |-> TRUE, v |-> 0]
Num(x) == [nan |-> FALSE, v |-> x]

RECURSIVE window_sum(_, _, _)
\* The sum of the w prices that end at date d
window_sum(px, d, w) ==
    IF w = 0 THEN 0 ELSE px[d] + window_sum(px, d - 1, w - 1)

\* ma_crossover.py:15-16  px.rolling(w).mean(): NaN on the first w - 1 dates; the
\* mean is held as the window's sum, to be divided by w
rolling(px, w) ==
    [d \in 1..Len(px) |-> IF d < w THEN NaN ELSE Num(window_sum(px, d, w))]

\* ma_crossover.py:18-19  0, masked to 1 where s > l and to -1 where s < l; a
\* comparison with NaN is False. s and l hold sums over ws and wl prices.
mask(s, l, ws, wl) ==
    [d \in 1..Len(s) |->
        IF s[d].nan \/ l[d].nan THEN 0
        ELSE IF s[d].v * wl > l[d].v * ws THEN 1
        ELSE IF s[d].v * wl < l[d].v * ws THEN -1
        ELSE 0]

\* ma_crossover.py:20  with no shift: the signal of a date is that date's own
shift_none(sig) == [d \in 1..Len(sig) |-> Num(sig[d])]

\* ma_crossover.py:20  sig.shift(1): each value moves to the next date
shift(sig) == [d \in 1..Len(sig) |-> IF d = 1 THEN NaN ELSE Num(sig[d - 1])]

\* ma_crossover.py:20  fillna(0).astype("int8")
fillna(sig) == [d \in 1..Len(sig) |-> IF sig[d].nan THEN 0 ELSE sig[d].v]

\* ma_crossover.py:13-20
signal_one(px, w) ==
    fillna(shift(mask(rolling(px, w.short), rolling(px, w.long), w.short, w.long)))

\* ma_crossover.py:6-10  a strategy is constructed with short_window <
\* long_window and is handed at most MaxBars bars of one symbol
StrategyInit ==
    /\ IdleBut("strategy")
    /\ ma_windows \in Windows
    /\ \E n \in 0..MaxBars : ma_px \in [1..n -> BarPrices]
    /\ ma_sig = no_signals

\* ma_crossover.py:22-24  generate_signals for the one symbol
GenerateSignals ==
    /\ ~ma_sig.returned
    /\ ma_sig' = [returned |-> TRUE, values |-> signal_one(ma_px, ma_windows)]
    /\ UNCHANGED <<ma_windows, ma_px, beside_ma>>

StrategyNext == GenerateSignals

StrategySpec == StrategyInit /\ [][StrategyNext]_vars

RECURSIVE PriceSum(_, _)
\* The prices of the dates a..b, summed
PriceSum(a, b) == IF a > b THEN 0 ELSE ma_px[b] + PriceSum(a, b - 1)

\* Both moving averages are defined on date d
Warm(d) == d >= ma_windows.long /\ d <= Len(ma_px)

\* The sign of (short moving average - long moving average) on a warm date d
RawSign(d) ==
    LET ss == PriceSum(d - ma_windows.short + 1, d) * ma_windows.long
        ls == PriceSum(d - ma_windows.long + 1, d) * ma_windows.short
    IN IF ss > ls THEN 1 ELSE IF ss < ls THEN -1 ELSE 0

\* C26: the signal of date i is the sign of (short moving average - long
\* moving average) on date i - 1, and 0 if date i is the first or one of the
\* averages is not defined on date i - 1; so it is made of prices up to date
\* i - 1 only, every signal is -1, 0 or 1, the signal of the first date is 0,
\* and the first +1 is on the date after the first date on which the short
\* average is above the long one
C26_SignalIsYesterdaysSign ==
    ma_sig.returned =>
        LET sig == ma_sig.values
        IN /\ Len(sig) = Len(ma_px)
           /\ \A d \in 1..Len(sig) :
                 /\ sig[d] \in {-1, 0, 1}
                 /\ sig[d] = (IF d > 1 /\ Warm(d - 1) THEN RawSign(d - 1) ELSE 0)
           /\ Len(sig) >= 1 => sig[1] = 0
           /\ \A d \in 1..Len(sig) :
                 (sig[d] = 1 /\ \A h \in 1..(d - 1) : sig[h] # 1) =>
                     /\ d >= 2 /\ Warm(d - 1) /\ RawSign(d - 1) = 1
                     /\ \A h \in 1..(d - 2) : ~(Warm(h) /\ RawSign(h) = 1)

\* C26 witness: with windows 2 and 3 the short average rose above the long one
\* on the third of four bars and fell below it on the fourth; the signals are
\* 0, 0, 0, +1
C26_Witness ==
    /\ ma_sig.returned
    /\ ma_windows.long = 3
    /\ Len(ma_px) = 4
    /\ RawSign(3) = 1 /\ RawSign(4) = -1
    /\ ma_sig.values = <<0, 0, 0, 1>>

\* ---------------------------------------------------------------------------
\* dataio.load_many_csv: files loaded by a pool of threads
\* ---------------------------------------------------------------------------

MaxFiles == 3                    \* number of paths handed in

FileSymbols == <<"AAA", "BBB", "CCC", "DDD">>   \* the Symbol column of each file
FileDates == {<<2, 1, 2>>, <<3>>}               \* the Date column of a file
WorkerCounts == {1, 2}                          \* max_workers

RECURSIVE sorted_dates(_)
\* dataio.py:32  sort_values("Date").drop_duplicates(subset=["Date"]) of a
\* set of dates
sorted_dates(S) ==
    IF S = {} THEN << >>
    ELSE LET least == CHOOSE x \in S : \A y \in S : x <= y
         IN <<least>> \o sorted_dates(S \ {least})

\* dataio.py:23-44  the frame of a file: its dates in ascending order without
\* duplicates, and its symbol
load_csv(file) ==
    [Symbol |-> file.symbol,
     index |-> sorted_dates({file.dates[k] : k \in 1..Len(file.dates)})]

\* dataio.py:53  with every frame filed under the symbol of the first file
result_key_first(loaded) == FileSymbols[1]

\* dataio.py:53  sym = str(df["Symbol"].iloc[0])
result_key(loaded) == loaded.Symbol

\* dataio.py:54  results[sym] = df
put(results, sym, loaded) ==
    [x \in DOMAIN results \cup {sym} |-> IF x = sym THEN loaded ELSE results[x]]

\* load_many_csv is called with the paths of up to MaxFiles files that have
\* pairwise distinct symbols
LoaderInit ==
    /\ IdleBut("dataio")
    /\ \E n \in 1..MaxFiles :
         \E ds \in [1..n -> FileDates] :
            ld_files = [k \in 1..n |-> [symbol |-> FileSymbols[k], dates |-> ds[k]]]
    /\ ld_max_workers \in WorkerCounts
    /\ ld_submitted = 0
    /\ ld_status = << >>
    /\ ld_future = << >>
    /\ ld_order = << >>
    /\ ld_results = << >>
    /\ ld_pc = "submit"

Tasks == 1..ld_submitted

\* dataio.py:49  ex.submit(load_csv, p) for the next path; after the last one
\* the loop over as_completed begins
Submit ==
    /\ ld_pc = "submit"
    /\ ld_submitted' = ld_submitted + 1
    /\ ld_status' = Append(ld_status, "queued")
    /\ ld_future' = Append(ld_future, << >>)
    /\ ld_pc' = IF ld_submitted' = Len(ld_files) THEN "collect" ELSE "submit"
    /\ UNCHANGED <<ld_files, ld_max_workers, ld_order, ld_results, beside_ld>>

\* A free thread of the pool takes the task that was queued first
StartTask ==
    /\ Cardinality({t \in Tasks : ld_status[t] = "running"}) < ld_max_workers
    /\ \E t \in Tasks :
         /\ ld_status[t] = "queued"
         /\ \A u \in Tasks : ld_status[u] = "queued" => t <= u
         /\ ld_status' = [ld_status EXCEPT ![t] = "running"]
    /\ UNCHANGED <<ld_files, ld_max_workers, ld_submitted, ld_future, ld_order,
                   ld_results, ld_pc, beside_ld>>

\* A thread finishes load_csv(p): the future of its task holds the frame
FinishTask ==
    /\ \E t \in Tasks :
         /\ ld_status[t] = "running"
         /\ ld_status' = [ld_status EXCEPT ![t] = "done"]
         /\ ld_future' = [ld_future EXCEPT ![t] = load_csv(ld_files[t])]
    /\ UNCHANGED <<ld_files, ld_max_workers, ld_submitted, ld_order, ld_results,
                   ld_pc, beside_ld>>

\* dataio.py:50-54  as_completed yields a finished future that it has not
\* yielded yet; its frame is filed under its symbol
Collect ==
    /\ ld_pc = "collect"
    /\ \E t \in Tasks :
         /\ ld_status[t] = "done"
         /\ \A k \in 1..Len(ld_order) : ld_order[k] # t
         /\ ld_order' = Append(ld_order, t)
         /\ ld_results' = put(ld_results, result_key(ld_future[t]), ld_future[t])
    /\ UNCHANGED <<ld_files, ld_max_workers, ld_submitted, ld_status, ld_future,
                   ld_pc, beside_ld>>

\* dataio.py:55  every future was yielded: the pool shuts down, results is
\* returned
ReturnResults ==
    /\ ld_pc = "collect"
    /\ Len(ld_order) = Len(ld_files)
    /\ ld_pc' = "returned"
    /\ UNCHANGED <<ld_files, ld_max_workers, ld_submitted, ld_status, ld_future,
                   ld_order, ld_results, beside_ld>>

LoaderNext == Submit \/ StartTask \/ FinishTask \/ Collect \/ ReturnResults

LoaderSpec == LoaderInit /\ [][LoaderNext]_vars

\* C27: the mapping returned has exactly one entry per file, under the file's
\* symbol, and the entry is load_csv of that file, whatever the size of the
\* pool and the order in which the threads finished
C27_OneEntryPerSymbol ==
    ld_pc = "returned" =>
        /\ DOMAIN ld_results = {ld_files[k].symbol : k \in 1..Len(ld_files)}
        /\ Cardinality(DOMAIN ld_results) = Len(ld_files)
        /\ \A k \in 1..Len(ld_files) :
              ld_results[ld_files[k].symbol] = load_csv(ld_files[k])

\* C27 witness: three files whose contents differ were loaded by two threads
\* and came back last file first
C27_Witness ==
    /\ ld_pc = "returned"
    /\ Len(ld_files) = 3
    /\ ld_max_workers = 2
    /\ ld_files[1].dates # ld_files[3].dates
    /\ ld_order = <<3, 2, 1>>

(***************************************************************************)
(* examples/parallel_optimization.py: a grid of Params is run once in a    *)
(* loop and once by a pool of processes.                                   *)
(***************************************************************************)
MaxGrid == 3                     \* length of the grid

\* Params of the grid (short < long)
GridParams == Windows \cup {[short |-> 1, long |-> 3]}
SweepData == {<<10, 12, 14, 12>>, <<14, 12, 10, 12>>}
PoolSizes == {1, 2}

\* All lists of n different Params
RECURSIVE Grids(_)
Grids(n) ==
    IF n = 0 THEN {<< >>}
    ELSE {Append(g, q) : g \in Grids(n - 1), q \in GridParams}

GridsUpTo(n) == UNION {{g \in Grids(m) : \A a, b \in 1..m : g[a] = g[b] => a = b}
                         : m \in 1..n}

\* parallel_optimization.py:27-45  run_one loads the data, builds its own
\* strategy and Backtester and returns the metrics of the run under the keys
\* "short" and "long".  The metrics are determined by the signals of the
\* strategy on the data; nothing is read from or written to another run.
run_one(params, data) ==
    [short |-> params.short, long |-> params.long,
     metrics |-> signal_one(data, params)]

SweepInit ==
    /\ IdleBut("sweep")
    /\ sw_grid \in GridsUpTo(MaxGrid)
    /\ sw_data \in SweepData
    /\ sw_processes \in PoolSizes
    /\ sw_seq = << >>
    /\ sw_submitted = 0
    /\ sw_status = << >>
    /\ sw_future = << >>
    /\ sw_rows = << >>
    /\ sw_pc = "sequential"

Runs == 1..sw_submitted

\* parallel_optimization.py:51-54  one turn of the loop of
\* run_grid_sequential; after the last Params the rows are returned and
\* run_grid_parallel is called (lines 91, 97)
RunSequential ==
    /\ sw_pc = "sequential"
    /\ sw_seq' = Append(sw_seq, run_one(sw_grid[Len(sw_seq) + 1], sw_data))
    /\ sw_pc' = IF Len(sw_seq') = Len(sw_grid) THEN "submit" ELSE "sequential"
    /\ UNCHANGED <<sw_grid, sw_data, sw_processes, sw_submitted, sw_status,
                   sw_future, sw_rows, beside_sw>>

\* parallel_optimization.py:61  ex.submit(run_one, p, ...) for the next Params
SubmitRun ==
    /\ sw_pc = "submit"
    /\ sw_submitted' = sw_submitted + 1
    /\ sw_status' = Append(sw_status, "queued")
    /\ sw_future' = Append(sw_future, << >>)
    /\ sw_pc' = IF sw_submitted' = Len(sw_grid) THEN "collect" ELSE "submit"
    /\ UNCHANGED <<sw_grid, sw_data, sw_processes, sw_seq, sw_rows, beside_sw>>

\* A free process of the pool takes the run that was queued first
StartRun ==
    /\ Cardinality({t \in Runs : sw_status[t] = "running"}) < sw_processes
    /\ \E t \in Runs :
         /\ sw_status[t] = "queued"
         /\ \A u \in Runs : sw_status[u] = "queued" => t <= u
         /\ sw_status' = [sw_status EXCEPT ![t] = "running"]
    /\ UNCHANGED <<sw_grid, sw_data, sw_processes, sw_seq, sw_submitted,
                   sw_future, sw_rows, sw_pc, beside_sw>>

\* A process finishes run_one(p, ...): the future of the run holds its row
FinishRun ==
    /\ \E t \in Runs :
         /\ sw_status[t] = "running"
         /\ sw_status' = [sw_status EXCEPT ![t] = "done"]
         /\ sw_future' = [sw_future EXCEPT ![t] = run_one(sw_grid[t], sw_data)]
    /\ UNCHANGED <<sw_grid, sw_data, sw_processes, sw_seq, sw_submitted,
                   sw_rows, sw_pc, beside_sw>>

\* parallel_optimization.py:62-64  as_completed yields a finished future that
\* it has not yielded yet; its row is appended to rows
CollectRow ==
    /\ sw_pc = "collect"
    /\ \E t \in Runs :
         /\ sw_status[t] = "done"
         /\ sw_status' = [sw_status EXCEPT ![t] = "yielded"]
         /\ sw_rows' = Append(sw_rows, sw_future[t])
    /\ UNCHANGED <<sw_grid, sw_data, sw_processes, sw_seq, sw_submitted,
                   sw_future, sw_pc, beside_sw>>

\* parallel_optimization.py:65  every future was yielded: rows is returned
ReturnRows ==
    /\ sw_pc = "collect"
    /\ Len(sw_rows) = Len(sw_grid)
    /\ sw_pc' = "returned"
    /\ UNCHANGED <<sw_grid, sw_data, sw_processes, sw_seq, sw_submitted,
                   sw_status, sw_future, sw_rows, beside_sw>>

SweepNext ==
    RunSequential \/ SubmitRun \/ StartRun \/ FinishRun \/ CollectRow \/ ReturnRows

SweepSpec == SweepInit /\ [][SweepNext]_vars

\* The row of rows that carries the keys of params
RowsFor(rows, params) ==
    {k \in 1..Len(rows) : rows[k].short = params.short /\ rows[k].long = params.long}

\* For every Params of the grid the parallel rows hold exactly one row, and it
\* carries the metrics of the sequential row of the same Params
SameMetricsPerKey ==
    \A g \in 1..Len(sw_grid) :
        /\ Cardinality(RowsFor(sw_rows, sw_grid[g])) = 1
        /\ \A k \in RowsFor(sw_rows, sw_grid[g]) : sw_rows[k] = sw_seq[g]

\* C28: the rows run_grid_parallel returns carry, for every Params, the
\* metrics of run_grid_sequential, and the list returned is the same whatever
\* the order in which the processes completed: it is the list of the
\* sequential run, which is the one the pool returns when the runs complete
\* in the order of the grid
C28_OrderIndependent ==
    sw_pc = "returned" => SameMetricsPerKey /\ sw_rows = sw_seq


ExecutedBy(d) == Cardinality({k \in 1..Len(fills) : fills[k].date <= d})

\* Cash once the first n fills are executed
CashAfterFills(n) == IF n = 0 THEN initial_capital * Unit ELSE fills[n].cash_after

\* C34: the mark recorded for date dt is the cash and the positions that the
\* fills dated dt or earlier leave, valued at the Close of dt, and so the mark
\* of the first date is the initial capital
C34_MarkReflectsExecutedFills ==
    /\ \A m \in 1..Len(equity_curve) :
          LET dt == equity_curve[m].date
          IN equity_curve[m].equity
                = CashAfterFills(ExecutedBy(dt))
                  + MarkedAfter(ExecutedBy(dt), dt, Len(Symbols))
    /\ Len(equity_curve) >= 1 => equity_curve[1].equity = initial_capital * Unit

\* The fill that opened the position fills[k] acts on or leaves: the last
\* fill of the symbol, at or before k, that found the symbol flat
EntryOf(k) ==
    CHOOSE e \in 1..k :
        /\ fills[e].symbol = fills[k].symbol
        /\ HeldBefore(e) = 0
        /\ \A m \in (e + 1)..k :
              fills[m].symbol = fills[k].symbol => HeldBefore(m) # 0

\* C36: a fill raises the absolute size of its symbol's position only from a
\* position of exactly 0; every other fill strictly lowers it, towards zero
\* and not across; the position never exceeds the shares the per-symbol
\* budget buys at the execution price of its entry fill; and a symbol has at
\* most two fills on one execution date, an exit followed by an entry
C36_NoPyramiding ==
    /\ \A k \in 1..Len(fills) :
          LET before == HeldBefore(k)
              after == before + SignedQty(fills[k])
          IN /\ \/ before = 0 /\ after # 0
                \/ before > 0 /\ 0 <= after /\ after < before
                \/ before < 0 /\ before < after /\ after <= 0
             /\ after # 0 => Abs(after) <= BudgetBuys(fills[EntryOf(k)].price)
    /\ \A s \in SymSet : \A d \in Dates :
          LET on == {k \in 1..Len(fills) : fills[k].symbol = s /\ fills[k].date = d}
          IN /\ Cardinality(on) <= 2
             /\ \A a \in on : \A b \in on :
                   a < b => HeldBefore(a) # 0 /\ HeldBefore(b) = 0

(***************************************************************************)
(* The run of the engine against the other components: its fills replayed  *)
(* through the Portfolio and reconstructed by round_trip_trades.           *)
(***************************************************************************)

\* The Portfolio that the fills k.. of the run leave when they are applied in
\* order through _apply_fill to the Portfolio st
RECURSIVE Replayed(_, _)
Replayed(st, k) ==
    IF k > Len(fills) THEN st
    ELSE Replayed(apply_fill(st.cash, st.positions, fills[k].symbol, fills[k].side,
                             fills[k].qty, fills[k].price, fills[k].commission),
                  k + 1)

\* On that replay every fill k.. leaves the cash that its cash_after records
RECURSIVE CashTrail(_, _)
CashTrail(st, k) ==
    IF k > Len(fills) THEN TRUE
    ELSE LET nxt == apply_fill(st.cash, st.positions, fills[k].symbol, fills[k].side,
                               fills[k].qty, fills[k].price, fills[k].commission)
         IN nxt.cash = fills[k].cash_after /\ CashTrail(nxt, k + 1)

\* Portfolio(cash=initial_capital)
FreshPortfolio ==
    [cash |-> initial_capital * Unit, positions |-> [s \in SymSet |-> no_position]]

\* C32: the fills of the run, applied in order through Portfolio._apply_fill
\* to a Portfolio that starts with the initial capital, leave after each fill
\* that fill's cash_after and, when the run is done, the cash and the
\* per-symbol quantities the engine ends with; every fill's commission is
\* qty x price x commission_rate
C32_EngineRefinesLedger ==
    /\ CashTrail(FreshPortfolio, 1)
    /\ \A k \in 1..Len(fills) :
          fills[k].commission * RateDen = fills[k].qty * fills[k].price * commission_rate
    /\ pc = "done" =>
          /\ Replayed(FreshPortfolio, 1).cash = cash
          /\ \A s \in SymSet : Replayed(FreshPortfolio, 1).positions[s].qty = positions[s]

\* C32 witness: a finished run with commission, three fills or more, that ends
\* short one symbol and long or flat the other after a sale
C32_Witness ==
    /\ pc = "done"
    /\ commission_rate > 0
    /\ Len(fills) >= 3
    /\ \E s \in SymSet : positions[s] < 0
    /\ \E k \in 1..Len(fills) : fills[k].side = "BUY" /\ fills[k].commission > 0

\* engine.py:98-212  the body of the symbol loop for sym on date d, on the
\* signals and Opens the run has read; st = [cash, positions, fills, prev]
run_symbol(st, sym, d) ==
    LET target == process_target(signals[sym][d])
        st1 == exit_leg(st, sym, target, Open[sym][next_dt(d)], d)
        st2 == entry_leg(st1, sym, target, Open[sym][next_dt(d)], d)
    IN IF target_changed(target, st.prev[sym])
       THEN [cash |-> st2.cash, positions |-> st2.positions, fills |-> st2.fills,
             prev |-> [st.prev EXCEPT ![sym] =
                          advance_prev(@, target, st2.fills # st1.fills)],
             curve |-> st.curve]
       ELSE st

\* engine.py:98  for sym in signals.columns, the columns k.. of order
RECURSIVE run_symbols(_, _, _, _)
run_symbols(st, order, k, d) ==
    IF k > Len(order) THEN st
    ELSE run_symbols(run_symbol(st, order[k], d), order, k + 1, d)

\* engine.py:92-219  the loop over the dates d.., each closed by its mark, and
\* the final mark
RECURSIVE run_dates(_, _, _)
run_dates(st, order, d) ==
    IF d > last_decision_date
    THEN [st EXCEPT !.curve =
             Append(@, [date |-> NumDates,
                        equity |-> mark_to_market(st.cash, st.positions, NumDates)])]
    ELSE LET day == run_symbols(st, order, 1, d)
         IN run_dates([day EXCEPT !.curve =
                          Append(@, [date |-> d,
                                     equity |-> mark_to_market(day.cash, day.positions, d)])],
                      order, d + 1)

\* engine.py:30-47, 80-230  run() on a new Backtester whose data mapping lists
\* the symbols in the given order
run_in(order) ==
    run_dates([cash |-> initial_capital * Unit,
               positions |-> [s \in SymSet |-> 0],
               fills |-> << >>,
               prev |-> [s \in SymSet |-> 0],
               curve |-> << >>], order, 1)

\* The data mapping with its symbols the other way round
Permuted == [k \in 1..Len(Symbols) |-> Symbols[Len(Symbols) + 1 - k]]

\* What was traded: a fill without the balances recorded after it
Order(f) == [date |-> f.date, symbol |-> f.symbol, side |-> f.side, qty |-> f.qty,
             price |-> f.price, commission |-> f.commission]

\* The orders of sym in a fill list, in the order of the list
RECURSIVE OrdersOf(_, _, _)
OrdersOf(fs, sym, k) ==
    IF k = 0 THEN << >>
    ELSE IF fs[k].symbol = sym THEN Append(OrdersOf(fs, sym, k - 1), Order(fs[k]))
         ELSE OrdersOf(fs, sym, k - 1)

\* C35: the run on the same data with the symbols of the data mapping in
\* another order trades the same for every symbol (date, side, quantity,
\* price, commission of its fills) and returns the same equity series, ending
\* cash and positions
C35_SymbolOrderIndependent ==
    pc = "done" =>
        LET other == run_in(Permuted)
        IN /\ \A s \in SymSet :
                 OrdersOf(other.fills, s, Len(other.fills)) = OrdersOf(fills, s, Len(fills))
           /\ other.curve = equity_curve
           /\ other.cash = cash
           /\ other.positions = positions

\* The fold over the dates and symbols is the run: in the order of Symbols it
\* returns what the run returned
RunInAgrees ==
    pc = "done" =>
        LET same == run_in(Symbols)
        IN same.fills = fills /\ same.curve = equity_curve /\ same.cash = cash
           /\ same.positions = positions /\ same.prev = prev_target

\* The fill of fills[k]'s symbol that precedes fills[k] (0 if there is none)
FillBefore(k) ==
    IF \E m \in 1..(k - 1) : fills[m].symbol = fills[k].symbol
    THEN CHOOSE m \in 1..(k - 1) :
            /\ fills[m].symbol = fills[k].symbol
            /\ \A x \in (m + 1)..(k - 1) : fills[x].symbol # fills[k].symbol
    ELSE 0

\* The SELL fills of the run
Sells == {k \in 1..Len(fills) : fills[k].side = "SELL"}

====
